---------------------------- MODULE Spec2Model ----------------------------
(***************************************************************************)
(* A model of the chess rules engine and of the board GUI of CHESS.py.     *)
(*                                                                         *)
(* A piece is the two-character string of the source ('Kw', 'Pb', ...)     *)
(* written as the pair <<kind, colour>>; the 0 of an empty square is       *)
(* Empty.  A board is indexed board[y][x] (row, then column) as in the     *)
(* source, rows and columns 0..7, row 0 being black's back rank.           *)
(* Lists of the source are sequences in the source's order.               *)
(***************************************************************************)
EXTENDS Integers, Sequences, FiniteSets, TLC

VARIABLES
    position,   \* the live GamePosition: board, player, castling, EnP, HMC
    history,    \* the history dictionary: position key -> occurrence count
    prevMove,   \* GUI.prevMove, the last move played: <<x, y, x2, y2>>
    before,     \* the position the last move was applied to
    line,       \* the opening this game follows: an index of Lines
    ply,        \* the number of makemove calls on the live position
    \* the board GUI (GUI.__init__ and its event loop)
    select,     \* GUI.select: 3 is voice operation, anything lower the mouse
    isDown,     \* a piece is being dragged
    isClicked,  \* a piece was selected by a click
    prevPos,    \* the square of that click
    xy,         \* the event loop's locals x, y
    listofTuples,   \* the event loop's local listofTuples
    piece_selected_by_voice,
    listening,  \* inside the "while True" of the voice destination handler
    isDraw,
    chessEnded,
    winner,
    gameEnded,  \* the user quit
    crashed,    \* an exception left the event loop
    \* the game against the AI: the primary thread and its search worker
    isAI,       \* GUI.isAI: the user plays against the AI
    AIPlayer,   \* GUI.AIPlayer: the side the AI plays, 0 or 1 (-1: none)
    isAIThink,
    isTransition,   \* the AI's piece is being animated
    bestMoveReturn, \* the list the search writes its move into
    move_thread,    \* "none", or "alive" / "dead" as is_alive() tells
    searchBoard,    \* the live board when the last search was started
    wTodo,      \* squares the worker has yet to ask findPossibleSquares of
                \* on the live position (root allMoves)
    wStage,     \* where the worker is in the queen branch for Head(wTodo)
    wSeen,      \* <<square, kind>>: the own queens the worker has read as
                \* a rook or a bishop
    pTodo,      \* the same for the primary thread (createShades -> isCheck)
    pStage,
    \* AI.negamax: its arguments and the locals of the root call
    level,      \* GUI.level, the depth the root call is given (0: None)
    openings,   \* the opening book: position key -> list of moves
    searched,   \* GUI.searched, the table of values: position key -> value
    rStage,     \* "none", "called", "loop" or "returned"
    rIdx,       \* the index in moves of the move the root loop is at
    bestMove,
    bestValue,
    rAlpha,     \* the root call's alpha
    rValues,    \* the values the root loop has found, in the order of moves
    rCalls,     \* the number of recursive calls the root call has made
    searchNo,   \* the number of root calls the game has made so far
    cloned,     \* the GamePosition that clone() returned, Empty before
    lastOp,     \* the method called last on the position or on its clone
    cOps        \* the number of such calls

engineVars == <<position, history, prevMove, before, line, ply>>

guiVars == <<select, isDown, isClicked, prevPos, xy, listofTuples,
             piece_selected_by_voice, listening, isDraw, chessEnded, winner,
             gameEnded, crashed>>

aiVars == <<isAI, AIPlayer, isAIThink, isTransition, bestMoveReturn,
            move_thread, searchBoard, wTodo, wStage, wSeen, pTodo, pStage>>

searchVars == <<level, openings, searched, rStage, rIdx, bestMove, bestValue,
                rAlpha, rValues, rCalls, searchNo>>

cloneVars == <<cloned, lastOp, cOps>>

vars == <<engineVars, guiVars, aiVars, searchVars, cloneVars>>

-----------------------------------------------------------------------------
(* Values *)

Empty == <<>>
NoEnP == <<-1>>

Idx == 0..7

InSeq(e, s) == \E i \in 1..Len(s) : s[i] = e

SeqToSet(s) == {s[i] : i \in 1..Len(s)}

RECURSIVE Flatten(_)
Flatten(ss) == IF ss = <<>> THEN <<>> ELSE Head(ss) \o Flatten(Tail(ss))

(* The squares (x, y) in the order of "for row in range(8): for col in     *)
(* range(8)".                                                              *)
RowMajor == [k \in 1..64 |-> <<(k - 1) % 8, (k - 1) \div 8>>]

(* A Python list index: negative indices count from the end.               *)
PyIdx(i) == IF i < 0 THEN i + 8 ELSE i

At(board, x, y) == board[PyIdx(y)][PyIdx(x)]

-----------------------------------------------------------------------------
(* Board.create_board and the GamePosition the GUI constructs *)

list_w == <<"R", "N", "B", "Q", "K", "B", "N", "R">>

list_b == <<"R", "N", "B", "Q", "K", "B", "N", "R">>

create_board ==
    [i \in Idx |-> [j \in Idx |->
        IF i = 0 THEN <<list_b[j + 1], "b">>
        ELSE IF i = 1 THEN <<"P", "b">>
        ELSE IF i = 6 THEN <<"P", "w">>
        ELSE IF i = 7 THEN <<list_w[j + 1], "w">>
        ELSE Empty]]

GamePosition(board, player, castling_rights, EnP_Target, HMC) ==
    [board |-> board, player |-> player, castling |-> castling_rights,
     EnP |-> EnP_Target, HMC |-> HMC]

StartPosition ==
    GamePosition(create_board, 0, <<<<TRUE, TRUE>>, <<TRUE, TRUE>>>>, NoEnP, 0)

clone(p) == GamePosition(p.board, p.player, p.castling, p.EnP, p.HMC)

-----------------------------------------------------------------------------
(* Commands: occupancy helpers *)

isOccupied(board, x, y) == At(board, x, y) # Empty

isOccupiedby(board, x, y, color) ==
    /\ At(board, x, y) # Empty
    /\ At(board, x, y)[2] = color

filterbyColor(board, tuples, color) ==
    SelectSeq(tuples,
              LAMBDA pos : /\ pos[1] >= 0 /\ pos[1] <= 7
                           /\ pos[2] >= 0 /\ pos[2] <= 7
                           /\ ~isOccupiedby(board, pos[1], pos[2], color))

lookfor(board, piece) ==
    SelectSeq(RowMajor, LAMBDA sq : board[sq[2]][sq[1]] = piece)

opp(color) == IF color = "w" THEN "b" ELSE "w"

-----------------------------------------------------------------------------
(* Commands.makemove, in the order of its steps *)

(* Faulty: only a pawn move resets the clock.                              *)
HalfMoveClock_pawnOnly(board, piece, x2, y2, half_move_clock) ==
    IF piece = "P"
    THEN 0
    ELSE half_move_clock + 1

(* Lines 503-510: the half move clock.                                     *)
HalfMoveClock(board, piece, x2, y2, half_move_clock) ==
    IF isOccupied(board, x2, y2) \/ piece = "P"
    THEN 0
    ELSE half_move_clock + 1

(* Lines 518-521: a king move costs the side to move both rights.          *)
KingRights(castling_rights, piece, player) ==
    IF piece = "K"
    THEN [castling_rights EXCEPT ![player + 1] = <<FALSE, FALSE>>]
    ELSE castling_rights

(* Faulty: the rook is put on the far side of the king's origin.           *)
CastleRook_farSide(board, piece, color, x, x2) ==
    IF piece = "K" /\ (x2 - x = 2 \/ x - x2 = 2)
    THEN LET l == IF color = "w" THEN 7 ELSE 0
         IN  IF x2 > x
             THEN [[board EXCEPT ![l][3] = <<"R", color>>] EXCEPT ![l][7] = Empty]
             ELSE [[board EXCEPT ![l][5] = <<"R", color>>] EXCEPT ![l][0] = Empty]
    ELSE board

(* Lines 522-534: a king move of two files drags the rook along.           *)
CastleRook(board, piece, color, x, x2) ==
    IF piece = "K" /\ (x2 - x = 2 \/ x - x2 = 2)
    THEN LET l == IF color = "w" THEN 7 ELSE 0
         IN  IF x2 > x
             THEN [[board EXCEPT ![l][5] = <<"R", color>>] EXCEPT ![l][7] = Empty]
             ELSE [[board EXCEPT ![l][3] = <<"R", color>>] EXCEPT ![l][0] = Empty]
    ELSE board

(* Faulty: the corner branches with kingside and queenside exchanged.      *)
RookRights_swapped(castling_rights, piece, x, y) ==
    IF piece = "R"
    THEN IF x = 0 /\ y = 0 THEN [castling_rights EXCEPT ![2][1] = FALSE]
         ELSE IF x = 7 /\ y = 0 THEN [castling_rights EXCEPT ![2][2] = FALSE]
         ELSE IF x = 0 /\ y = 7 THEN [castling_rights EXCEPT ![1][1] = FALSE]
         ELSE IF x = 7 /\ y = 7 THEN [castling_rights EXCEPT ![1][2] = FALSE]
         ELSE castling_rights
    ELSE castling_rights

(* Faulty: the corner branches assign the side's whole pair of rights.     *)
RookRights_pair(castling_rights, piece, x, y) ==
    IF piece = "R"
    THEN IF x = 0 /\ y = 0 THEN [castling_rights EXCEPT ![2] = <<TRUE, FALSE>>]
         ELSE IF x = 7 /\ y = 0 THEN [castling_rights EXCEPT ![2] = <<FALSE, TRUE>>]
         ELSE IF x = 0 /\ y = 7 THEN [castling_rights EXCEPT ![1] = <<TRUE, FALSE>>]
         ELSE IF x = 7 /\ y = 7 THEN [castling_rights EXCEPT ![1] = <<FALSE, TRUE>>]
         ELSE castling_rights
    ELSE castling_rights

(* Lines 536-549: a rook leaving a corner costs that corner's right.       *)
RookRights(castling_rights, piece, x, y) ==
    IF piece = "R"
    THEN IF x = 0 /\ y = 0 THEN [castling_rights EXCEPT ![2][2] = FALSE]
         ELSE IF x = 7 /\ y = 0 THEN [castling_rights EXCEPT ![2][1] = FALSE]
         ELSE IF x = 0 /\ y = 7 THEN [castling_rights EXCEPT ![1][2] = FALSE]
         ELSE IF x = 7 /\ y = 7 THEN [castling_rights EXCEPT ![1][1] = FALSE]
         ELSE castling_rights
    ELSE castling_rights

(* Faulty: the pawn is removed on the far side of the target.              *)
EnPassantKill_wrongRank(board, piece, color, EnP_Target, x2, y2) ==
    IF piece = "P" /\ EnP_Target = <<x2, y2>>
    THEN IF color = "w"
         THEN [board EXCEPT ![PyIdx(y2 - 1)][x2] = Empty]
         ELSE [board EXCEPT ![PyIdx(y2 + 1)][x2] = Empty]
    ELSE board

(* Lines 551-557: the pawn taken en passant is removed.                    *)
EnPassantKill(board, piece, color, EnP_Target, x2, y2) ==
    IF piece = "P" /\ EnP_Target = <<x2, y2>>
    THEN IF color = "w"
         THEN [board EXCEPT ![PyIdx(y2 + 1)][x2] = Empty]
         ELSE [board EXCEPT ![PyIdx(y2 - 1)][x2] = Empty]
    ELSE board

(* Faulty: the target is the square the pawn lands on.                     *)
NewEnPTarget_landing(piece, x, y, y2) ==
    IF piece = "P" /\ (y2 - y = 2 \/ y - y2 = 2)
    THEN <<x, y2>>
    ELSE NoEnP

(* Lines 558-563 and 571-574: the new en passant target.  (y+y2)/2 is the  *)
(* rank between two ranks two apart, so the division is exact.             *)
NewEnPTarget(piece, x, y, y2) ==
    IF piece = "P" /\ (y2 - y = 2 \/ y - y2 = 2)
    THEN <<x, (y + y2) \div 2>>
    ELSE NoEnP

(* Faulty: the queen's colour is taken from the wrong rank.                *)
Promote_otherColour(board, piece, x2, y2) ==
    IF piece = "P"
    THEN IF y2 = 0 THEN [board EXCEPT ![y2][x2] = <<"Q", "b">>]
         ELSE IF y2 = 7 THEN [board EXCEPT ![y2][x2] = <<"Q", "w">>]
         ELSE board
    ELSE board

(* Lines 564-570: promotion to a queen.                                    *)
Promote(board, piece, x2, y2) ==
    IF piece = "P"
    THEN IF y2 = 0 THEN [board EXCEPT ![y2][x2] = <<"Q", "w">>]
         ELSE IF y2 = 7 THEN [board EXCEPT ![y2][x2] = <<"Q", "b">>]
         ELSE board
    ELSE board

makemove(pos, x, y, x2, y2) ==
    LET board == pos.board
        moved == board[y][x]
    IN
    IF moved = Empty THEN pos
    ELSE
    LET piece  == moved[1]
        color  == moved[2]
        player == pos.player
        half_move_clock == HalfMoveClock(board, piece, x2, y2, pos.HMC)
        b1 == [[board EXCEPT ![y2][x2] = moved] EXCEPT ![y][x] = Empty]
        b2 == CastleRook(b1, piece, color, x, x2)
        b3 == EnPassantKill(b2, piece, color, pos.EnP, x2, y2)
        b4 == Promote(b3, piece, x2, y2)
        castling_rights ==
            RookRights(KingRights(pos.castling, piece, player), piece, x, y)
    IN  [board |-> b4, player |-> 1 - player, castling |-> castling_rights,
         EnP |-> NewEnPTarget(piece, x, y, y2), HMC |-> half_move_clock]

-----------------------------------------------------------------------------
(* Commands.findPossibleSquares and the attack queries *)

RECURSIVE Ray(_, _, _, _, _, _)
(* One "while True" walk of the rook and bishop branches: from (kx, ky) in *)
(* steps of (dx, dy) until the edge or the first occupied square.          *)
Ray(board, kx, ky, dx, dy, enemy_color) ==
    LET nx == kx + dx
        ny == ky + dy
    IN  IF nx <= 7 /\ nx >= 0 /\ ny <= 7 /\ ny >= 0
        THEN IF ~isOccupied(board, nx, ny)
             THEN <<<<nx, ny>>>> \o Ray(board, nx, ny, dx, dy, enemy_color)
             ELSE IF isOccupiedby(board, nx, ny, enemy_color)
                  THEN <<<<nx, ny>>>>
                  ELSE <<>>
        ELSE <<>>

RookSquares(board, x, y, enemy_color) ==
    Ray(board, x, y, -1, 0, enemy_color) \o Ray(board, x, y, 1, 0, enemy_color)
    \o Ray(board, x, y, 0, -1, enemy_color) \o Ray(board, x, y, 0, 1, enemy_color)

BishopSquares(board, x, y, enemy_color) ==
    Ray(board, x, y, -1, -1, enemy_color) \o Ray(board, x, y, -1, 1, enemy_color)
    \o Ray(board, x, y, 1, -1, enemy_color) \o Ray(board, x, y, 1, 1, enemy_color)

(* Faulty: the knight's second offset is 1 where it should be 2 and 2      *)
(* where it should be 1.                                                   *)
KnightSquares_swapped(board, x, y, color) ==
    filterbyColor(board,
        << <<x - 2, y - 2>>, <<x - 2, y + 2>>, <<x - 1, y - 1>>, <<x - 1, y + 1>>,
           <<x + 1, y - 1>>, <<x + 1, y + 1>>, <<x + 2, y - 2>>, <<x + 2, y + 2>> >>,
        color)

KnightSquares(board, x, y, color) ==
    filterbyColor(board,
        << <<x - 2, y - 1>>, <<x - 2, y + 1>>, <<x - 1, y - 2>>, <<x - 1, y + 2>>,
           <<x + 1, y - 2>>, <<x + 1, y + 2>>, <<x + 2, y - 1>>, <<x + 2, y + 1>> >>,
        color)

KingSteps(board, x, y, color) ==
    filterbyColor(board,
        << <<x - 1, y - 1>>, <<x - 1, y>>, <<x - 1, y + 1>>,
           <<x, y - 1>>,     <<x, y>>,     <<x, y + 1>>,
           <<x + 1, y - 1>>, <<x + 1, y>>, <<x + 1, y + 1>> >>,
        color)

(* Faulty: a pawn's advances are generated in an attack search as well.    *)
Advances_inAttackSearch(AttackSearch) == TRUE

(* Lines 305 and 327: "and not AttackSearch".                              *)
Advances(AttackSearch) == ~AttackSearch

PawnSquares(pos, x, y, color, AttackSearch) ==
    LET board == pos.board
        EnP_Target == pos.EnP
        d == IF color = "w" THEN -1 ELSE 1
        home == IF color = "w" THEN 6 ELSE 1
        enemy == IF color = "w" THEN "b" ELSE "w"
    IN  (IF ~isOccupied(board, x, y + d) /\ Advances(AttackSearch)
         THEN <<<<x, y + d>>>> \o
              (IF y = home /\ ~isOccupied(board, x, y + 2 * d)
               THEN <<<<x, y + 2 * d>>>> ELSE <<>>)
         ELSE <<>>)
        \o (IF x # 0 /\ isOccupiedby(board, x - 1, y + d, enemy)
            THEN <<<<x - 1, y + d>>>> ELSE <<>>)
        \o (IF x # 7 /\ isOccupiedby(board, x + 1, y + d, enemy)
            THEN <<<<x + 1, y + d>>>> ELSE <<>>)
        \o (IF EnP_Target # NoEnP
               /\ (EnP_Target = <<x - 1, y + d>> \/ EnP_Target = <<x + 1, y + d>>)
            THEN <<EnP_Target>> ELSE <<>>)

RECURSIVE findPossibleSquares(_, _, _, _)
RECURSIVE isAttackedby(_, _, _, _)
RECURSIVE isCheck(_, _)

(* The castling targets of the king branch (lines 444-467).                *)
CastlingSquares(pos, x, y, enemy_color) ==
    LET board == pos.board
        right == pos.castling[pos.player + 1]
    IN  (IF /\ right[1]
            /\ board[y][7] # Empty
            /\ board[y][7][1] = "R"
            /\ ~isOccupied(board, x + 1, y)
            /\ ~isOccupied(board, x + 2, y)
            /\ ~isAttackedby(pos, x, y, enemy_color)
            /\ ~isAttackedby(pos, x + 1, y, enemy_color)
            /\ ~isAttackedby(pos, x + 2, y, enemy_color)
         THEN <<<<x + 2, y>>>> ELSE <<>>)
        \o
        (IF /\ right[2]
            /\ board[y][0] # Empty
            /\ board[y][0][1] = "R"
            /\ ~isOccupied(board, x - 1, y)
            /\ ~isOccupied(board, x - 2, y)
            /\ ~isOccupied(board, x - 3, y)
            /\ ~isAttackedby(pos, x, y, enemy_color)
            /\ ~isAttackedby(pos, x - 1, y, enemy_color)
            /\ ~isAttackedby(pos, x - 2, y, enemy_color)
         THEN <<<<x - 2, y>>>> ELSE <<>>)

(* The squares generated for the piece on (x, y) before the final          *)
(* own-king-safety filter (lines 296-467).                                 *)
PseudoSquares(pos, x, y, AttackSearch) ==
    LET board == pos.board
        piece == board[y][x][1]
        color == board[y][x][2]
        enemy_color == opp(color)
    IN  CASE piece = "P" -> PawnSquares(pos, x, y, color, AttackSearch)
          [] piece = "R" -> RookSquares(board, x, y, enemy_color)
          [] piece = "N" -> KnightSquares(board, x, y, color)
          [] piece = "B" -> BishopSquares(board, x, y, enemy_color)
          [] piece = "Q" ->
                LET asRook   == [pos EXCEPT !.board[y][x] = <<"R", color>>]
                    asBishop == [pos EXCEPT !.board[y][x] = <<"B", color>>]
                IN  findPossibleSquares(asRook, x, y, TRUE)
                    \o findPossibleSquares(asBishop, x, y, TRUE)
          [] piece = "K" ->
                KingSteps(board, x, y, color)
                \o (IF ~AttackSearch
                    THEN CastlingSquares(pos, x, y, enemy_color) ELSE <<>>)
          [] OTHER -> <<>>

(* findPossibleSquares without the own-king-safety filter of lines 469-479. *)
findPossibleSquares_unfiltered(pos, x, y, AttackSearch) ==
    PseudoSquares(pos, x, y, AttackSearch)

findPossibleSquares(pos, x, y, AttackSearch) ==
    LET generated == PseudoSquares(pos, x, y, AttackSearch)
        color == pos.board[y][x][2]
    IN  IF ~AttackSearch
        THEN SelectSeq(generated,
                 LAMBDA t : ~isCheck(makemove(clone(pos), x, y, t[1], t[2]), color))
        ELSE generated

isAttackedby(pos, target_x, target_y, color) ==
    \E x \in Idx : \E y \in Idx :
        /\ pos.board[y][x] # Empty
        /\ pos.board[y][x][2] = color
        /\ InSeq(<<target_x, target_y>>, findPossibleSquares(pos, x, y, TRUE))

isCheck(pos, color) ==
    LET king == Head(lookfor(pos.board, <<"K", color>>))
    IN  isAttackedby(pos, king[1], king[2], opp(color))

getallpieces(pos, color) ==
    SelectSeq(RowMajor, LAMBDA sq : isOccupiedby(pos.board, sq[1], sq[2], color))

allMoves(pos, color) ==
    LET listofpieces == getallpieces(pos, color)
    IN  Flatten([k \in 1..Len(listofpieces) |->
            LET p == listofpieces[k]
                targets == findPossibleSquares(pos, p[1], p[2], FALSE)
            IN  [n \in 1..Len(targets) |-> <<p, targets[n]>>]])

isCheckmate(pos, color) ==
    isCheck(pos, color) /\ allMoves(pos, color) = <<>>

(* Faulty: a stalemate is any position without a move.                     *)
isStalemate_noCheckTest(pos) ==
    LET color == IF pos.player = 0 THEN "w" ELSE "b"
    IN  allMoves(pos, color) = <<>>

isStalemate(pos) ==
    LET color == IF pos.player = 0 THEN "w" ELSE "b"
    IN  ~isCheck(pos, color) /\ allMoves(pos, color) = <<>>

(* Faulty: the key without the castling rights.                            *)
pos2key_noRights(pos) ==
    LET boardTuple == [r \in 1..8 |-> [c \in 1..8 |-> pos.board[r - 1][c - 1]]]
    IN  <<boardTuple, pos.player>>

(* Lines 666-684: the rows of the board and the two lists of rights are    *)
(* made tuples, and the key is the tuple of the board, the player and the  *)
(* rights.                                                                 *)
pos2key(pos) ==
    LET boardTuple == [r \in 1..8 |-> [c \in 1..8 |-> pos.board[r - 1][c - 1]]]
        rights == pos.castling
        tuplerights == << <<rights[1][1], rights[1][2]>>,
                          <<rights[2][1], rights[2][2]>> >>
    IN  <<boardTuple, pos.player, tuplerights>>

-----------------------------------------------------------------------------
(* Legal play from the standard start.                                     *)
(*                                                                         *)
(* Every move is a target findPossibleSquares offers for a piece of the    *)
(* side to move.  The games explored are those that open with one of the   *)
(* Lines below (line 1 is the empty opening) and go on with up to MaxFree  *)
(* arbitrary legal moves.  A move is <<<<x, y>>, <<x2, y2>>>>.              *)

MaxFree == 2

Mv(x, y, x2, y2) == <<<<x, y>>, <<x2, y2>>>>

Lines == <<
    \* 1: the empty opening
    <<>>,
    \* 2: 1.e4 a6 2.e5 d5 (white may take en passant on d6)
    << Mv(4,6,4,4), Mv(0,1,0,2), Mv(4,4,4,3), Mv(3,1,3,3) >>,
    \* 3: 1.a3 d5 2.a4 d4 3.e4 (black may take en passant on e3)
    << Mv(0,6,0,5), Mv(3,1,3,3), Mv(0,5,0,4), Mv(3,3,3,4), Mv(4,6,4,4) >>,
    \* 4: 1.e4 e5 2.Nf3 Nc6 3.Bc4 Bc5 (white may castle kingside)
    << Mv(4,6,4,4), Mv(4,1,4,3), Mv(6,7,5,5), Mv(1,0,2,2), Mv(5,7,2,4),
       Mv(5,0,2,3) >>,
    \* 5: 1.d4 d5 2.Nc3 Nc6 3.Bf4 Bf5 4.Qd2 Qd7 (either side may castle queenside)
    << Mv(3,6,3,4), Mv(3,1,3,3), Mv(1,7,2,5), Mv(1,0,2,2), Mv(2,7,5,4),
       Mv(2,0,5,3), Mv(3,7,3,6), Mv(3,0,3,1) >>,
    \* 6: 1.g3 b6 2.Bg2 a6 (the bishop may take the rook on a8)
    << Mv(6,6,6,5), Mv(1,1,1,2), Mv(5,7,6,6), Mv(0,1,0,2) >>,
    \* 7: 1.h4 g5 2.hxg5 Nf6 3.g6 Bh6 4.g7 (a white pawn on g7 beside e8-h8)
    << Mv(7,6,7,4), Mv(6,1,6,3), Mv(7,4,6,3), Mv(6,0,5,2), Mv(6,3,6,2),
       Mv(5,0,7,2), Mv(6,2,6,1) >>,
    \* 8: 1.a4 a5 2.Ra3 h5 3.h4 b6 (one white rook has moved, the other may)
    << Mv(0,6,0,4), Mv(0,1,0,3), Mv(0,7,0,5), Mv(7,1,7,3), Mv(7,6,7,4),
       Mv(1,1,1,2) >>,
    \* 9: 1.e4 f5 2.Qh5+ (black is in check)
    << Mv(4,6,4,4), Mv(5,1,5,3), Mv(3,7,7,3) >>,
    \* 10: 1.f3 e5 2.g4 (black may mate on h4)
    << Mv(5,6,5,5), Mv(4,1,4,3), Mv(6,6,6,4) >>,
    \* 11: 1.h3 g5 2.h4 gxh4 3.Nf3 h3 4.Nd4 hxg2 5.Nf3 (a black pawn on g2
    \* may promote on g1, f1 or h1)
    << Mv(7,6,7,5), Mv(6,1,6,3), Mv(7,5,7,4), Mv(6,3,7,4), Mv(6,7,5,5),
       Mv(7,4,7,5), Mv(5,5,3,4), Mv(7,5,6,6), Mv(3,4,5,5) >>,
    \* 12: 1.e3 a5 2.Qh5 Ra6 3.Qxa5 h5 4.h4 Rah6 5.Qxc7 f6 6.Qxd7+ Kf7
    \* 7.Qxb7 Qd3 8.Qxb8 Qh7 9.Qxc8 Kg6 10.Qe6 (black is stalemated)
    << Mv(4,6,4,5), Mv(0,1,0,3), Mv(3,7,7,3), Mv(0,0,0,2), Mv(7,3,0,3),
       Mv(7,1,7,3), Mv(7,6,7,4), Mv(0,2,7,2), Mv(0,3,2,1), Mv(5,1,5,2),
       Mv(2,1,3,1), Mv(4,0,5,1), Mv(3,1,1,1), Mv(3,0,3,5), Mv(1,1,1,0),
       Mv(3,5,7,1), Mv(1,0,2,0), Mv(5,1,6,2), Mv(2,0,4,2) >>,
    \* 13: 1.Nf3 Nf6 2.Ng1 Ng8 3.Nf3 Nf6 4.Ng1 Ng8 5.Nf3 (the position after
    \* 1.Nf3 stands for the third time)
    << Mv(6,7,5,5), Mv(6,0,5,2), Mv(5,5,6,7), Mv(5,2,6,0), Mv(6,7,5,5),
       Mv(6,0,5,2), Mv(5,5,6,7), Mv(5,2,6,0), Mv(6,7,5,5) >>,
    \* 14: a hundred knight moves without a capture and without any position
    \* standing twice (the half move clock reaches 100 with black's 50th)
    << Mv(1,7,2,5), Mv(1,0,0,2), Mv(2,5,1,7), Mv(0,2,2,3), Mv(6,7,7,5),
       Mv(2,3,1,5), Mv(7,5,5,4), Mv(6,0,5,2), Mv(5,4,7,3), Mv(5,2,4,4),
       Mv(7,3,6,5), Mv(4,4,5,2), Mv(1,7,0,5), Mv(5,2,3,3), Mv(0,5,2,4),
       Mv(3,3,4,5), Mv(6,5,4,4), Mv(1,5,2,3), Mv(2,4,4,3), Mv(2,3,0,4),
       Mv(4,3,5,5), Mv(4,5,5,3), Mv(5,5,6,3), Mv(0,4,2,3), Mv(4,4,6,5),
       Mv(2,3,1,5), Mv(6,3,5,5), Mv(5,3,4,5), Mv(6,5,4,4), Mv(4,5,6,4),
       Mv(5,5,4,3), Mv(6,4,5,2), Mv(4,3,2,2), Mv(5,2,3,3), Mv(4,4,2,5),
       Mv(3,3,1,4), Mv(2,2,0,3), Mv(1,4,0,2), Mv(2,5,0,4), Mv(1,5,3,4),
       Mv(0,3,1,5), Mv(3,4,2,2), Mv(1,5,3,4), Mv(2,2,0,3), Mv(0,4,1,2),
       Mv(0,2,1,0), Mv(1,2,3,3), Mv(0,3,1,5), Mv(3,3,5,4), Mv(1,5,0,3),
       Mv(5,4,4,2), Mv(0,3,1,5), Mv(3,4,1,3), Mv(1,5,3,4), Mv(1,3,0,5),
       Mv(3,4,2,2), Mv(4,2,6,3), Mv(2,2,0,3), Mv(0,5,2,4), Mv(0,3,1,5),
       Mv(2,4,4,5), Mv(1,5,3,4), Mv(4,5,3,3), Mv(3,4,5,3), Mv(3,3,5,4),
       Mv(5,3,7,4), Mv(5,4,3,5), Mv(1,0,0,2), Mv(6,3,4,4), Mv(0,2,2,3),
       Mv(3,5,1,4), Mv(2,3,4,2), Mv(1,4,0,2), Mv(4,2,6,3), Mv(4,4,6,5),
       Mv(6,3,4,2), Mv(0,2,1,4), Mv(4,2,3,4), Mv(1,4,2,2), Mv(7,4,5,3),
       Mv(2,2,1,4), Mv(5,3,3,2), Mv(1,4,3,3), Mv(3,2,5,3), Mv(3,3,5,4),
       Mv(3,4,2,2), Mv(6,5,4,4), Mv(5,3,4,5), Mv(5,4,3,3), Mv(2,2,0,3),
       Mv(3,3,2,5), Mv(4,5,5,3), Mv(2,5,0,4), Mv(0,3,1,5), Mv(4,4,2,3),
       Mv(1,5,3,4), Mv(0,4,2,5), Mv(5,3,3,2), Mv(2,3,3,5), Mv(3,2,4,4) >>,
    \* 15: a game of 41 half-moves against the AI of level 1 playing black:
    \* white's moves are the user's, black's are those the search returns.
    \* The white king and the knight of b1 go to and fro and positions
    \* stand twice: the history has 39 keys when black is to make the 42nd
    \* half-move
    << Mv(6,7,5,5), Mv(1,0,2,2), Mv(5,5,4,3), Mv(2,2,4,3), Mv(1,7,0,5),
       Mv(6,0,5,2), Mv(0,5,1,7), Mv(4,3,3,5), Mv(4,6,3,5), Mv(5,2,4,4),
       Mv(4,7,4,6), Mv(4,4,5,6), Mv(4,6,4,7), Mv(5,6,3,7), Mv(4,7,4,6),
       Mv(3,7,1,6), Mv(4,6,4,7), Mv(1,6,3,5), Mv(4,7,4,6), Mv(3,5,2,7),
       Mv(4,6,4,7), Mv(2,7,3,5), Mv(4,7,4,6), Mv(1,1,1,2), Mv(4,6,3,7),
       Mv(2,1,2,2), Mv(3,7,4,6), Mv(5,1,5,2), Mv(1,7,0,5), Mv(4,0,5,1),
       Mv(0,5,1,7), Mv(5,1,6,2), Mv(1,7,0,5), Mv(0,1,0,2), Mv(0,5,1,7),
       Mv(7,1,7,2), Mv(1,7,0,5), Mv(0,0,1,0), Mv(0,5,1,7), Mv(1,0,0,0),
       Mv(1,7,0,5) >>,
    \* 16: 1.Nc3 Na6 (1.Nc3 is what the search of levels 2 and 3 returns on
    \* the starting position)
    << Mv(1,7,2,5), Mv(1,0,0,2) >>,
    \* 17: 1.g4 b6 2.a4 Bb7 3.Ra3 Bxh1 4.h4 Bb7 5.Rh3 a6 6.Rh1 a5 7.Bh3 c6
    \* 8.Nf3 c5 (the rook of h1 was taken and the rook of a1 stands on h1)
    << Mv(6,6,6,4), Mv(1,1,1,2), Mv(0,6,0,4), Mv(2,0,1,1), Mv(0,7,0,5),
       Mv(1,1,7,7), Mv(7,6,7,4), Mv(7,7,1,1), Mv(0,5,7,5), Mv(0,1,0,2),
       Mv(7,5,7,7), Mv(0,2,0,3), Mv(5,7,7,5), Mv(2,1,2,2), Mv(6,7,5,5),
       Mv(2,2,2,3) >>,
    \* 18: 1.e4 a6 2.e5 d5 3.exd6 (opening 2 and the capture en passant)
    << Mv(4,6,4,4), Mv(0,1,0,2), Mv(4,4,4,3), Mv(3,1,3,3), Mv(4,3,3,2) >>,
    \* 19: 1.e4 d5 2.e5 a6 (the board of opening 2 with black's moves in
    \* the other order: no capture en passant on d6)
    << Mv(4,6,4,4), Mv(3,1,3,3), Mv(4,4,4,3), Mv(0,1,0,2) >>,
    \* 20: 1.f3 e6 2.g4 e5, then 99 knight moves without a capture and
    \* without any position standing twice, and ...Qh4 mate: the mating
    \* move brings the half move clock to 100
    << Mv(5,6,5,5), Mv(4,1,4,2), Mv(6,6,6,4), Mv(4,2,4,3), Mv(1,7,2,5),
       Mv(6,0,5,2), Mv(6,7,7,5), Mv(5,2,7,3), Mv(7,5,6,7), Mv(7,3,5,4),
       Mv(6,7,7,5), Mv(5,4,3,3), Mv(2,5,0,4), Mv(3,3,4,1), Mv(0,4,2,5),
       Mv(4,1,5,3), Mv(7,5,5,6), Mv(5,3,7,2), Mv(2,5,1,7), Mv(1,0,2,2),
       Mv(1,7,0,5), Mv(2,2,1,4), Mv(5,6,7,5), Mv(1,4,2,2), Mv(0,5,1,7),
       Mv(2,2,1,4), Mv(1,7,2,5), Mv(7,2,6,0), Mv(2,5,0,4), Mv(6,0,4,1),
       Mv(7,5,6,7), Mv(1,4,2,2), Mv(0,4,2,5), Mv(2,2,1,4), Mv(2,5,1,3),
       Mv(4,1,6,0), Mv(6,7,7,5), Mv(1,4,0,2), Mv(1,3,0,5), Mv(6,0,4,1),
       Mv(0,5,1,3), Mv(4,1,3,3), Mv(1,3,2,5), Mv(0,2,1,4), Mv(2,5,1,7),
       Mv(3,3,5,2), Mv(7,5,5,6), Mv(5,2,7,3), Mv(5,6,3,5), Mv(1,4,2,2),
       Mv(1,7,0,5), Mv(7,3,5,4), Mv(0,5,1,7), Mv(2,2,1,0), Mv(3,5,1,4),
       Mv(5,4,7,5), Mv(1,4,3,3), Mv(7,5,6,3), Mv(3,3,4,1), Mv(1,0,2,2),
       Mv(4,1,5,3), Mv(2,2,0,3), Mv(5,3,7,2), Mv(0,3,2,4), Mv(7,2,6,0),
       Mv(2,4,4,5), Mv(1,7,2,5), Mv(6,3,4,4), Mv(2,5,3,3), Mv(4,4,3,2),
       Mv(3,3,2,5), Mv(3,2,5,3), Mv(2,5,0,4), Mv(4,5,3,3), Mv(0,4,2,3),
       Mv(3,3,5,4), Mv(2,3,0,4), Mv(5,4,6,2), Mv(6,0,4,1), Mv(5,3,4,5),
       Mv(4,1,5,3), Mv(6,2,5,4), Mv(5,3,6,5), Mv(4,5,3,3), Mv(6,5,5,3),
       Mv(5,4,7,5), Mv(5,3,4,1), Mv(7,5,5,6), Mv(0,4,1,2), Mv(3,3,2,5),
       Mv(1,2,0,4), Mv(5,6,7,5), Mv(4,1,6,2), Mv(2,5,3,3), Mv(0,4,2,5),
       Mv(3,3,5,2), Mv(2,5,1,3), Mv(7,5,5,4), Mv(1,3,0,5), Mv(5,2,7,3),
       Mv(6,2,4,1), Mv(5,4,4,2), Mv(4,1,6,0), Mv(3,0,7,4) >>,
    \* 21: 1.Na3 c5 2.Nb5 Nf6 3.Nc7+ (black's one legal move is Qxc7)
    << Mv(1,7,0,5), Mv(2,1,2,3), Mv(0,5,1,3), Mv(6,0,5,2), Mv(1,3,2,1) >>
    >>

(* The openings the games of two players are taken from; the last two are  *)
(* for the opening book.                                                   *)
EngineLines == 1..17

ToMove(pos) == IF pos.player = 0 THEN "w" ELSE "b"

Unset == <<-1, -1>>

(* GUI.initialize, lines 1890-1941, and the locals of the event loop,      *)
(* which hold nothing before their first assignment.                       *)
initialize ==
    /\ isDown = FALSE
    /\ isClicked = FALSE
    /\ prevPos = Unset
    /\ xy = Unset
    /\ listofTuples = <<>>
    /\ piece_selected_by_voice = FALSE
    /\ listening = FALSE
    /\ isDraw = FALSE
    /\ chessEnded = FALSE
    /\ winner = ""
    /\ gameEnded = FALSE
    /\ crashed = FALSE
    /\ isTransition = FALSE
    /\ wStage = 0
    /\ wSeen = <<>>
    /\ pTodo = <<>>
    /\ pStage = 0

(* No search has been started: isAIThink is False (line 1909) and there is *)
(* no thread.                                                              *)
NoSearch ==
    /\ isAIThink = FALSE
    /\ bestMoveReturn = <<>>
    /\ move_thread = "none"
    /\ searchBoard = create_board
    /\ wTodo = <<>>

(* Lines 1911-1927 of GUI.initialize: the book and the table are empty     *)
(* (openingTable.txt is read as text, so pickle.loads raises and the bare  *)
(* except leaves the empty defaultdict).  No root call is running.         *)
NoRoot ==
    /\ openings = <<>>
    /\ searched = <<>>
    /\ rStage = "none"
    /\ rIdx = 0
    /\ bestMove = <<>>
    /\ bestValue = 0
    /\ rAlpha = 0
    /\ rValues = <<>>
    /\ rCalls = 0
    /\ searchNo = 0

(* No clone of the live position has been made.                            *)
NoClone ==
    /\ cloned = Empty
    /\ lastOp = "none"
    /\ cOps = 0

Init ==
    /\ position = StartPosition
    /\ history = <<>>
    /\ prevMove = <<-1, -1, -1, -1>>
    /\ before = StartPosition
    /\ line \in EngineLines
    /\ ply = 0
    /\ select = -1
    /\ isAI = FALSE
    /\ AIPlayer = -1
    /\ initialize
    /\ NoSearch
    /\ level = 0
    /\ NoRoot
    /\ NoClone

(* A move of the live game: the caller picks an origin and one of the      *)
(* targets findPossibleSquares returned for it, and calls makemove.        *)
Play(m) ==
    /\ position' = makemove(position, m[1][1], m[1][2], m[2][1], m[2][2])
    /\ prevMove' = <<m[1][1], m[1][2], m[2][1], m[2][2]>>
    /\ before' = position
    /\ ply' = ply + 1
    /\ UNCHANGED <<history, line, guiVars, aiVars>>
    /\ UNCHANGED <<searchVars, cloneVars>>

BookMove ==
    /\ ply < Len(Lines[line])
    /\ InSeq(Lines[line][ply + 1], allMoves(position, ToMove(position)))
    /\ Play(Lines[line][ply + 1])

FreeMove ==
    /\ ply >= Len(Lines[line])
    /\ ply < Len(Lines[line]) + MaxFree
    /\ \E m \in SeqToSet(allMoves(position, ToMove(position))) : Play(m)

Next == BookMove \/ FreeMove

Spec == Init /\ [][Next]_vars

-----------------------------------------------------------------------------
(* The board GUI in a two-player game (isAI is False, so no search is      *)
(* started and isAIThink and isTransition stay False): the mouse and voice *)
(* handlers of the event loop, lines 1121-1538.                            *)
(*                                                                         *)
(* An event carries the chess square pixel_coord_to_chess, or the voice    *)
(* dictionaries, made of it.  The squares the user points at or names are  *)
(* the first NumSquares of ClickList, and the game is followed for         *)
(* MaxGuiMoves moves.                                                      *)

NumSquares == 6

MaxGuiMoves == 2

ClickList == << <<4, 6>>, <<4, 4>>, <<4, 1>>, <<6, 7>>, <<5, 5>>, <<4, 3>>,
                <<3, 6>>, <<3, 4>> >>

ClickSquares ==
    {ClickList[i] : i \in 1..(IF NumSquares < Len(ClickList)
                              THEN NumSquares ELSE Len(ClickList))}

HasKing(board, color) == lookfor(board, <<"K", color>>) # <<>>

(* GamePosition.addtoHistory and checkRepition, lines 116-125.             *)
addtoHistory(hist, pos) ==
    LET key == pos2key(pos)
    IN  IF key \in DOMAIN hist
        THEN [hist EXCEPT ![key] = @ + 1]
        ELSE hist @@ (key :> 1)

(* Faulty: "greater than 3", as the comment of line 117 has it.            *)
checkRepition_moreThanThree(hist) == \E key \in DOMAIN hist : hist[key] > 3

(* Lines 116-120.                                                          *)
checkRepition(hist) == \E key \in DOMAIN hist : hist[key] >= 3

(* lookfor(board, piece)[0] in isCheck raises IndexError when the king is  *)
(* not on the board.  findPossibleSquares reaches it in its final filter,  *)
(* for the colour of the piece asked about.                                *)
findPossibleSquaresRaises(pos, x, y) ==
    /\ ~HasKing(pos.board, pos.board[y][x][2])
    /\ PseudoSquares(pos, x, y, FALSE) # <<>>

(* Faulty: the draw test without the half move clock.                      *)
EndOfGame_noClock(newpos) ==
    LET hist   == addtoHistory(history, newpos)
        color  == ToMove(newpos)
        drawRaises == ~HasKing(newpos.board, color)
        draw   == IF drawRaises THEN FALSE
                  ELSE isStalemate(newpos) \/ checkRepition(hist)
        whiteRaises == ~drawRaises /\ ~HasKing(newpos.board, "w")
        whiteMated == ~drawRaises /\ ~whiteRaises /\ isCheckmate(newpos, "w")
        blackRaises == ~drawRaises /\ ~whiteRaises /\ ~HasKing(newpos.board, "b")
        blackMated == ~drawRaises /\ ~whiteRaises /\ ~blackRaises
                      /\ isCheckmate(newpos, "b")
    IN  [position |-> newpos,
         history |-> hist,
         isDraw |-> isDraw \/ draw,
         chessEnded |-> chessEnded \/ draw \/ whiteMated \/ blackMated,
         winner |-> IF blackMated THEN "w" ELSE IF whiteMated THEN "b" ELSE winner,
         raised |-> drawRaises \/ whiteRaises \/ blackRaises]

(* Lines 1241-1262 (1477-1498 for the voice, 1581-1593 for the AI's move): *)
(* with the move made, the position is counted and the end of the game     *)
(* looked for.  The result is the state the handler leaves, with raised    *)
(* telling whether an IndexError ended it early.                           *)
EndOfGame(newpos) ==
    LET hist   == addtoHistory(history, newpos)
        color  == ToMove(newpos)
        drawRaises == newpos.HMC < 100 /\ ~HasKing(newpos.board, color)
        draw   == IF drawRaises THEN FALSE
                  ELSE \/ newpos.HMC >= 100
                       \/ isStalemate(newpos)
                       \/ checkRepition(hist)
        whiteRaises == ~drawRaises /\ ~HasKing(newpos.board, "w")
        whiteMated == ~drawRaises /\ ~whiteRaises /\ isCheckmate(newpos, "w")
        blackRaises == ~drawRaises /\ ~whiteRaises /\ ~HasKing(newpos.board, "b")
        blackMated == ~drawRaises /\ ~whiteRaises /\ ~blackRaises
                      /\ isCheckmate(newpos, "b")
    IN  [position |-> newpos,
         history |-> hist,
         isDraw |-> isDraw \/ draw,
         chessEnded |-> chessEnded \/ draw \/ whiteMated \/ blackMated,
         winner |-> IF blackMated THEN "w" ELSE IF whiteMated THEN "b" ELSE winner,
         raised |-> drawRaises \/ whiteRaises \/ blackRaises]

(* Lines 1237-1262 (1473-1498, 1579-1593): the move is made and the end of *)
(* the game looked for.                                                    *)
MoveOutcome(x, y, x2, y2) == EndOfGame(makemove(position, x, y, x2, y2))

ApplyOutcome(o, x, y, x2, y2) ==
    /\ position' = o.position
    /\ history' = o.history
    /\ prevMove' = <<x, y, x2, y2>>
    /\ before' = position
    /\ ply' = ply + 1
    /\ isDraw' = o.isDraw
    /\ chessEnded' = o.chessEnded
    /\ winner' = o.winner

NoMove == UNCHANGED <<position, history, prevMove, before, ply, isDraw,
                      chessEnded, winner>>

(* The squares the user points at or names.  While the game follows its    *)
(* opening the user plays the opening's next move: a piece is picked up    *)
(* (or named) on the move's origin and let go (or sent) on its target.     *)
DownInputs ==
    IF ply < Len(Lines[line])
    THEN {Lines[line][ply + 1][1]}
    ELSE ClickSquares

UpInputs ==
    IF ply < Len(Lines[line])
    THEN {Lines[line][ply + 1][2]}
    ELSE ClickSquares

MoveBudget == ply < Len(Lines[line]) + MaxGuiMoves

(* The primary thread is not inside createShades.                          *)
PrimaryIdle == pTodo = <<>> /\ pStage = 0

(* Faulty: input is taken while the AI thinks.                             *)
AcceptsInput_whileThinking ==
    /\ ~chessEnded /\ ~isTransition
    /\ ~gameEnded /\ ~crashed /\ ~listening
    /\ PrimaryIdle

(* Faulty: input is taken after the game has ended.                        *)
AcceptsInput_afterEnd ==
    /\ ~isTransition /\ ~isAIThink
    /\ ~gameEnded /\ ~crashed /\ ~listening
    /\ PrimaryIdle

(* Line 1134 and the loop condition of line 1066.                          *)
AcceptsInput ==
    /\ ~chessEnded /\ ~isTransition /\ ~isAIThink
    /\ ~gameEnded /\ ~crashed /\ ~listening
    /\ PrimaryIdle

Own(sq) == isOccupiedby(position.board, sq[1], sq[2], ToMove(position))

(* Line 1158 (1370 for the voice): createShades asks isCheck of both       *)
(* colours (lines 1727-1736), and so raises IndexError when a king is      *)
(* missing.                                                                *)
ShadeRaises(sq) ==
    ~HasKing(position.board, "w") \/ ~HasKing(position.board, "b")

(* The squares in the order of isAttackedby's loops (lines 272-273):       *)
(* x outermost.                                                            *)
ColMajor == [k \in 1..64 |-> <<(k - 1) \div 8, (k - 1) % 8>>]

QueensOf(board, color, order) ==
    SelectSeq(order, LAMBDA sq : board[sq[2]][sq[1]] = <<"Q", color>>)

(* createShades, lines 1727-1736: isCheck of white, then of black.  Each   *)
(* asks findPossibleSquares (AttackSearch) of every enemy piece on the     *)
(* live board; only for a queen does that write to the board (lines        *)
(* 424-436), so the queens are the squares that matter, black's first.     *)
ShadeVisits(board) ==
    QueensOf(board, "b", ColMajor) \o QueensOf(board, "w", ColMajor)

(* The number of isAttackedby calls the castling gate of lines 444-467     *)
(* makes for the king on (x, y): "and" stops at the first false operand.   *)
GateCalls(pos, x, y, enemy_color) ==
    LET board == pos.board
        right == pos.castling[pos.player + 1]
        calls(dir) ==
            IF isAttackedby(pos, x, y, enemy_color) THEN 1
            ELSE IF isAttackedby(pos, x + dir, y, enemy_color) THEN 2
            ELSE 3
    IN  (IF /\ right[1]
            /\ board[y][7] # Empty
            /\ board[y][7][1] = "R"
            /\ ~isOccupied(board, x + 1, y)
            /\ ~isOccupied(board, x + 2, y)
         THEN calls(1) ELSE 0)
        +
        (IF /\ right[2]
            /\ board[y][0] # Empty
            /\ board[y][0][1] = "R"
            /\ ~isOccupied(board, x - 1, y)
            /\ ~isOccupied(board, x - 2, y)
            /\ ~isOccupied(board, x - 3, y)
         THEN calls(-1) ELSE 0)

RECURSIVE Repeat(_, _)
Repeat(s, n) == IF n = 0 THEN <<>> ELSE s \o Repeat(s, n - 1)

(* The root call of negamax asks allMoves of the position it was given     *)
(* (line 711), and allMoves asks findPossibleSquares of every piece of the *)
(* side to move (lines 658-663).  These are the queen squares of the live  *)
(* board those calls come to, in their order: the side's own queens, and   *)
(* for its king the enemy's queens once per isAttackedby call of the       *)
(* castling gate.                                                          *)
RootVisits(pos, color) ==
    LET listofpieces == getallpieces(pos, color)
    IN  Flatten([k \in 1..Len(listofpieces) |->
            LET p == listofpieces[k]
                piece == pos.board[p[2]][p[1]][1]
            IN  IF piece = "Q" THEN <<p>>
                ELSE IF piece = "K"
                THEN Repeat(QueensOf(pos.board, opp(color), ColMajor),
                            GateCalls(pos, p[1], p[2], opp(color)))
                ELSE <<>>])

(* Lines 1265-1274 (1501-1513 for the voice, 2073-2079 in call_board): the *)
(* search thread is started on the live position.                          *)
StartSearch(pos) ==
    /\ bestMoveReturn' = <<>>
    /\ move_thread' = "alive"
    /\ isAIThink' = TRUE
    /\ searchBoard' = pos.board
    /\ wTodo' = RootVisits(pos, ToMove(pos))
    /\ wStage' = 0
    /\ wSeen' = <<>>

(* The end of a handler that has made the user's move: the search is       *)
(* started if the game goes on against the AI, and createShades([]) of     *)
(* line 1292 (1525) then runs beside it.                                   *)
AfterUserMove(o) ==
    IF isAI /\ ~o.chessEnded /\ ~o.raised
    THEN /\ StartSearch(o.position)
         /\ pTodo' = ShadeVisits(o.position.board)
         /\ UNCHANGED <<isAI, AIPlayer, isTransition, pStage>>
    ELSE UNCHANGED aiVars

(* Lines 1237-1293: the move MOUSEBUTTONUP makes, o its outcome.           *)
MouseMoved(o, from, sq2) ==
    /\ ApplyOutcome(o, from[1], from[2], sq2[1], sq2[2])
    /\ crashed' = o.raised
    /\ AfterUserMove(o)

(* Lines 1473-1537: the move the voice makes, o its outcome.               *)
VoiceMoved(o, sq2) ==
    /\ ApplyOutcome(o, xy[1], xy[2], sq2[1], sq2[2])
    /\ listening' = o.raised
    /\ AfterUserMove(o)

(* Lines 1138-1171: MOUSEBUTTONDOWN.                                       *)
MouseDown(sq) ==
    /\ AcceptsInput
    /\ select <= 2
    /\ ~isDown
    /\ xy' = sq
    /\ IF ~Own(sq)
       THEN UNCHANGED <<listofTuples, isDown, crashed>>
       ELSE IF findPossibleSquaresRaises(position, sq[1], sq[2])
       THEN crashed' = TRUE /\ UNCHANGED <<listofTuples, isDown>>
       ELSE /\ listofTuples' = findPossibleSquares(position, sq[1], sq[2], FALSE)
            /\ crashed' = ShadeRaises(sq)
            /\ isDown' = ~ShadeRaises(sq)
    /\ NoMove
    /\ UNCHANGED <<line, select, isClicked, prevPos, piece_selected_by_voice,
                   listening, gameEnded, aiVars>>
    /\ UNCHANGED <<searchVars, cloneVars>>

(* Lines 1172-1293: MOUSEBUTTONUP.                                         *)
MouseUp(sq2) ==
    /\ AcceptsInput
    /\ select <= 2
    /\ isDown \/ isClicked
    /\ LET same == (xy = sq2)
           again == same /\ isClicked          \* "x,y = self.prevPos" is run
           from == IF again THEN prevPos ELSE xy
           reselect == again /\ prevPos # sq2 /\ Own(sq2)
       IN  /\ isDown' = FALSE
           /\ xy' = from
           /\ isClicked' = IF ~same THEN isClicked
                           ELSE IF ~isClicked THEN TRUE
                           ELSE reselect
           /\ prevPos' = IF same /\ ~isClicked THEN xy
                         ELSE IF reselect THEN sq2
                         ELSE prevPos
           /\ IF ~InSeq(sq2, listofTuples)
              THEN NoMove /\ UNCHANGED <<crashed, aiVars>>
              ELSE /\ MoveBudget
                   /\ MouseMoved(MoveOutcome(from[1], from[2], sq2[1], sq2[2]),
                                 from, sq2)
    /\ UNCHANGED <<line, select, listofTuples, piece_selected_by_voice,
                   listening, gameEnded>>
    /\ UNCHANGED <<searchVars, cloneVars>>

(* Lines 1295-1388: a left click in voice operation, and the square heard. *)
(* The handler's "except Exception" swallows an IndexError.                *)
VoiceSelect(sq) ==
    /\ AcceptsInput
    /\ select > 2
    /\ xy' = sq
    /\ IF ~Own(sq) \/ findPossibleSquaresRaises(position, sq[1], sq[2])
       THEN UNCHANGED <<listofTuples, piece_selected_by_voice>>
       ELSE /\ listofTuples' = findPossibleSquares(position, sq[1], sq[2], FALSE)
            /\ piece_selected_by_voice' =
                  IF ShadeRaises(sq) THEN piece_selected_by_voice ELSE TRUE
    /\ NoMove
    /\ UNCHANGED <<line, select, isDown, isClicked, prevPos, listening,
                   gameEnded, crashed, aiVars>>
    /\ UNCHANGED <<searchVars, cloneVars>>

(* Lines 1392-1398: a right click in voice operation opens the loop that   *)
(* listens for the destination.                                            *)
VoiceDestination ==
    /\ AcceptsInput
    /\ select > 2
    /\ piece_selected_by_voice
    /\ piece_selected_by_voice' = FALSE
    /\ listening' = TRUE
    /\ NoMove
    /\ UNCHANGED <<line, select, isDown, isClicked, prevPos, xy, listofTuples,
                   gameEnded, crashed, aiVars>>
    /\ UNCHANGED <<searchVars, cloneVars>>

(* Lines 1399-1537: one turn of that loop in which a square of             *)
(* listofTuples is heard (any other square leaves everything as it is).    *)
(* The loop ends with the move made; an IndexError is swallowed and the    *)
(* loop goes on.                                                           *)
VoiceHeard(sq2) ==
    /\ listening
    /\ InSeq(sq2, listofTuples)
    /\ MoveBudget
    /\ VoiceMoved(MoveOutcome(xy[1], xy[2], sq2[1], sq2[2]), sq2)
    /\ UNCHANGED <<line, select, isDown, isClicked, prevPos, xy, listofTuples,
                   piece_selected_by_voice, gameEnded, crashed>>
    /\ UNCHANGED <<searchVars, cloneVars>>

(* Lines 1441-1444: "quit" is heard.                                       *)
VoiceQuit ==
    /\ listening
    /\ gameEnded' = TRUE
    /\ listening' = FALSE
    /\ NoMove
    /\ UNCHANGED <<line, select, isDown, isClicked, prevPos, xy, listofTuples,
                   piece_selected_by_voice, crashed, aiVars>>
    /\ UNCHANGED <<searchVars, cloneVars>>

(* The board as call_board first shows it: the menus have set select.      *)
(* The games of two users that are followed: free play from the start,    *)
(* the knights' to and fro of line 13, and the mate of line 20.            *)
GuiLines == {1, 13, 20}

GUIInit ==
    /\ position = StartPosition
    /\ history = <<>>
    /\ prevMove = <<-1, -1, -1, -1>>
    /\ before = StartPosition
    /\ line \in GuiLines
    /\ ply = 0
    /\ select \in {-1, 3}
    /\ isAI = FALSE
    /\ AIPlayer = -1
    /\ initialize
    /\ NoSearch
    /\ level = 0
    /\ NoRoot
    /\ NoClone

GUINext ==
    \/ \E sq \in DownInputs : MouseDown(sq)
    \/ \E sq \in UpInputs : MouseUp(sq)
    \/ \E sq \in DownInputs : VoiceSelect(sq)
    \/ VoiceDestination
    \/ \E sq \in UpInputs : VoiceHeard(sq)
    \/ VoiceQuit

SpecGUI == GUIInit /\ [][GUINext]_vars

-----------------------------------------------------------------------------
(* The game against the AI: the primary thread's event loop and the        *)
(* search worker, which is handed the live position itself.                *)
(*                                                                         *)
(* The worker's root call reads and writes the live board while it asks    *)
(* allMoves of it; everything below the root works on clones.  Each read   *)
(* of a square's piece and each assignment to board[y][x] in the queen     *)
(* branch of findPossibleSquares is a step of its own, for either thread.  *)
(* What the search answers is any of the moves allMoves gives for the      *)
(* position it was started on, or while the game follows its opening the   *)
(* opening's next move, if that is one of them; the free answers are the   *)
(* first MaxReplies of allMoves.                                           *)

MaxReplies == 3

AiLines == {1, 13, 14, 21}

(* The games against the AI that are played with either colour and by      *)
(* voice as well as by mouse (lines 2110-2172); in the others the AI is     *)
(* Black and the user moves by mouse.                                      *)
WideLines == {1, 13}

(* Faulty: the queen is not put back.                                      *)
SubstPiece_noRestore(stage, color) ==
    <<(IF stage = 1 THEN "R" ELSE "B"), color>>

(* Lines 428, 431 and 436: what the queen branch writes to board[y][x].    *)
SubstPiece(stage, color) ==
    <<(IF stage = 1 THEN "R" ELSE IF stage = 2 THEN "B" ELSE "Q"), color>>

(* Lines 296-300 and 424: findPossibleSquares reads the piece on the       *)
(* square and takes the queen branch if it is a queen.                     *)
WorkerRead ==
    /\ move_thread = "alive"
    /\ wTodo # <<>>
    /\ wStage = 0
    /\ LET q == Head(wTodo)
           p == position.board[q[2]][q[1]]
       IN  IF p[1] = "Q"
           THEN wStage' = 1 /\ UNCHANGED <<wTodo, wSeen>>
           ELSE /\ wTodo' = Tail(wTodo)
                /\ wSeen' = IF p[2] = ToMove(position)
                            THEN Append(wSeen, <<q, p[1]>>) ELSE wSeen
                /\ UNCHANGED wStage
    /\ UNCHANGED <<engineVars, guiVars, isAI, AIPlayer, isAIThink, isTransition,
                   bestMoveReturn, move_thread, searchBoard, pTodo, pStage>>
    /\ UNCHANGED <<searchVars, cloneVars>>

(* Lines 428, 431 and 436: the queen is replaced by a rook, then by a      *)
(* bishop, then put back.                                                  *)
WorkerWrite ==
    /\ move_thread = "alive"
    /\ wStage \in 1..3
    /\ LET q == Head(wTodo)
           color == position.board[q[2]][q[1]][2]
       IN  position' = [position EXCEPT
                           !.board[q[2]][q[1]] = SubstPiece(wStage, color)]
    /\ wStage' = IF wStage = 3 THEN 0 ELSE wStage + 1
    /\ wTodo' = IF wStage = 3 THEN Tail(wTodo) ELSE wTodo
    /\ UNCHANGED <<history, prevMove, before, line, ply, guiVars, isAI,
                   AIPlayer, isAIThink, isTransition, bestMoveReturn,
                   move_thread, searchBoard, wSeen, pTodo, pStage>>
    /\ UNCHANGED <<searchVars, cloneVars>>

(* Lines 296-300 and 424-437: the moves findPossibleSquares gives for a    *)
(* queen that it has read as a rook are those along its row and column,    *)
(* as a bishop the others.                                                 *)
Fits(kind, m) ==
    (kind = "R") <=> (m[1][1] = m[2][1] \/ m[1][2] = m[2][2])

(* Line 711: the moves the root call's allMoves has found, seen being the   *)
(* queens it has read as rooks or bishops.                                 *)
SeenMoves(pos, seen) ==
    SelectSeq(allMoves(pos, ToMove(pos)),
              LAMBDA m : \A i \in 1..Len(seen) :
                             seen[i][1] = m[1] => Fits(seen[i][2], m))

FirstOf(moves) ==
    {moves[k] : k \in 1..(IF Len(moves) < MaxReplies
                          THEN Len(moves) ELSE MaxReplies)}

(* The moves a search started on pos may answer.                           *)
SearchMoves(pos) ==
    IF /\ ply < Len(Lines[line])
       /\ \/ wSeen = <<>>
          \/ InSeq(Lines[line][ply + 1], SeenMoves(pos, wSeen))
    THEN {Lines[line][ply + 1]}
    ELSE FirstOf(SeenMoves(pos, wSeen))

(* Lines 713-749: the root call ends; with no move to play it returns      *)
(* without writing bestMoveReturn (lines 713-714).                         *)
WorkerFinish ==
    /\ move_thread = "alive"
    /\ wTodo = <<>>
    /\ wStage = 0
    /\ LET pos == [position EXCEPT !.board = searchBoard]
       IN  IF SearchMoves(pos) = {}
           THEN UNCHANGED bestMoveReturn
           ELSE \E m \in SearchMoves(pos) : bestMoveReturn' = m
    /\ move_thread' = "dead"
    /\ wSeen' = <<>>
    /\ UNCHANGED <<engineVars, guiVars, isAI, AIPlayer, isAIThink, isTransition,
                   searchBoard, wTodo, wStage, pTodo, pStage>>
    /\ UNCHANGED <<searchVars, cloneVars>>

(* Lines 1118-1119 and GUI.Thinking: every so many frames, while the AI    *)
(* thinks, createShades([]) is called (line 2189).                         *)
Thinking ==
    /\ isAIThink
    /\ ~gameEnded /\ ~crashed /\ ~listening
    /\ PrimaryIdle
    /\ ~isTransition /\ ~isDraw
    /\ pTodo' = ShadeVisits(searchBoard)
    /\ UNCHANGED <<engineVars, guiVars, isAI, AIPlayer, isAIThink, isTransition,
                   bestMoveReturn, move_thread, searchBoard, wTodo, wStage, wSeen,
                   pStage>>
    /\ UNCHANGED <<searchVars, cloneVars>>

PrimaryRead ==
    /\ ~crashed
    /\ pTodo # <<>>
    /\ pStage = 0
    /\ LET q == Head(pTodo)
       IN  IF position.board[q[2]][q[1]][1] = "Q"
           THEN pStage' = 1 /\ UNCHANGED pTodo
           ELSE pTodo' = Tail(pTodo) /\ UNCHANGED pStage
    /\ UNCHANGED <<engineVars, guiVars, isAI, AIPlayer, isAIThink, isTransition,
                   bestMoveReturn, move_thread, searchBoard, wTodo, wStage, wSeen>>
    /\ UNCHANGED <<searchVars, cloneVars>>

PrimaryWrite ==
    /\ ~crashed
    /\ pStage \in 1..3
    /\ LET q == Head(pTodo)
           color == position.board[q[2]][q[1]][2]
       IN  position' = [position EXCEPT
                           !.board[q[2]][q[1]] = SubstPiece(pStage, color)]
    /\ pStage' = IF pStage = 3 THEN 0 ELSE pStage + 1
    /\ pTodo' = IF pStage = 3 THEN Tail(pTodo) ELSE pTodo
    /\ UNCHANGED <<history, prevMove, before, line, ply, guiVars, isAI,
                   AIPlayer, isAIThink, isTransition, bestMoveReturn,
                   move_thread, searchBoard, wTodo, wStage, wSeen>>
    /\ UNCHANGED <<searchVars, cloneVars>>

(* Lines 1571-1597: the AI's move, o its outcome; x, y become the move's   *)
(* origin and the animation starts.                                        *)
AIMoved(o, from, to) ==
    /\ ApplyOutcome(o, from[1], from[2], to[1], to[2])
    /\ xy' = from
    /\ crashed' = o.raised
    /\ isTransition' = ~o.raised

(* Faulty: the first legal move is played, whatever the search wrote.      *)
ProposedMove_firstLegal == allMoves(position, ToMove(position))[1]

(* Lines 1575-1576: the move proposed is the pair in bestMoveReturn, the   *)
(* list handed to the thread started last (lines 1270-1272).               *)
ProposedMove == bestMoveReturn

(* Lines 1567-1601: the primary thread finds the worker finished and plays *)
(* its move.  With no pair in bestMoveReturn the else branch names an      *)
(* unbound variable (line 1578) and the loop is left by the NameError.     *)
AIComplete ==
    /\ isAIThink
    /\ ~isTransition
    /\ move_thread = "dead"
    /\ PrimaryIdle
    /\ ~gameEnded /\ ~crashed /\ ~listening
    /\ isAIThink' = FALSE
    /\ IF ShadeRaises(Unset) \/ Len(bestMoveReturn) # 2
       THEN /\ crashed' = TRUE
            /\ NoMove
            /\ UNCHANGED <<xy, isTransition>>
       ELSE /\ MoveBudget
            /\ AIMoved(MoveOutcome(ProposedMove[1][1], ProposedMove[1][2],
                                   ProposedMove[2][1], ProposedMove[2][2]),
                       ProposedMove[1], ProposedMove[2])
    /\ UNCHANGED <<line, select, isDown, isClicked, prevPos, listofTuples,
                   piece_selected_by_voice, listening, gameEnded, isAI,
                   AIPlayer, bestMoveReturn, move_thread, searchBoard, wTodo,
                   wStage, wSeen, pTodo, pStage>>
    /\ UNCHANGED <<searchVars, cloneVars>>

(* Lines 1542-1554: the animation of the AI's piece comes to its end.      *)
TransitionEnd ==
    /\ isTransition
    /\ ~gameEnded /\ ~crashed
    /\ isTransition' = FALSE
    /\ crashed' = ShadeRaises(Unset)
    /\ NoMove
    /\ UNCHANGED <<line, select, isDown, isClicked, prevPos, xy, listofTuples,
                   piece_selected_by_voice, listening, gameEnded, isAI,
                   AIPlayer, isAIThink, bestMoveReturn, move_thread,
                   searchBoard, wTodo, wStage, wSeen, pTodo, pStage>>
    /\ UNCHANGED <<searchVars, cloneVars>>

(* GUI.call_board, lines 2065-2079: playing white, the AI is set to        *)
(* thinking at once.                                                       *)
call_board ==
    IF AIPlayer = 0
    THEN /\ bestMoveReturn = <<>>
         /\ move_thread = "alive"
         /\ isAIThink = TRUE
         /\ searchBoard = StartPosition.board
         /\ wTodo = RootVisits(StartPosition, "w")
    ELSE /\ bestMoveReturn = <<>>
         /\ move_thread = "none"
         /\ isAIThink = FALSE
         /\ searchBoard = StartPosition.board
         /\ wTodo = <<>>

AIStart(lines, voice, white) ==
    /\ position = StartPosition
    /\ history = <<>>
    /\ prevMove = <<-1, -1, -1, -1>>
    /\ before = StartPosition
    /\ line \in lines
    /\ ply = 0
    /\ select \in (IF line \in voice THEN {2, 3} ELSE {2})
    /\ isAI = TRUE
    /\ AIPlayer \in (IF line \in white THEN {0, 1} ELSE {1})
    /\ initialize
    /\ call_board
    /\ level = 1        \* WorkerFinish answers with any of SearchMoves
    /\ NoRoot
    /\ NoClone

AIInit == AIStart(AiLines, WideLines, WideLines)

AINext ==
    \/ \E sq \in DownInputs : MouseDown(sq)
    \/ \E sq \in UpInputs : MouseUp(sq)
    \/ \E sq \in DownInputs : VoiceSelect(sq)
    \/ VoiceDestination
    \/ \E sq \in UpInputs : VoiceHeard(sq)
    \/ VoiceQuit
    \/ WorkerRead
    \/ WorkerWrite
    \/ WorkerFinish
    \/ Thinking
    \/ PrimaryRead
    \/ PrimaryWrite
    \/ AIComplete
    \/ TransitionEnd

SpecAI == AIInit /\ [][AINext]_vars

-----------------------------------------------------------------------------
(* The AI: evaluate and its helpers (lines 752-892) and the piece square   *)
(* tables (class PieceTable, lines 920-985).                               *)

pawn_table == <<
      0,   0,   0,   0,   0,   0,   0,   0,
     50,  50,  50,  50,  50,  50,  50,  50,
     10,  10,  20,  30,  30,  20,  10,  10,
      5,   5,  10,  25,  25,  10,   5,   5,
      0,   0,   0,  20,  20,   0,   0,   0,
      5,  -5, -10,   0,   0, -10,  -5,   5,
      5,  10,  10, -20, -20,  10,  10,   5,
      0,   0,   0,   0,   0,   0,   0,   0 >>

knight_table == <<
    -50, -40, -30, -30, -30, -30, -40, -50,
    -40, -20,   0,   0,   0,   0, -20, -40,
    -30,   0,  10,  15,  15,  10,   0, -30,
    -30,   5,  15,  20,  20,  15,   5, -30,
    -30,   0,  15,  20,  20,  15,   0, -30,
    -30,   5,  10,  15,  15,  10,   5, -30,
    -40, -20,   0,   5,   5,   0, -20, -40,
    -50, -90, -30, -30, -30, -30, -90, -50 >>

bishop_table == <<
    -20, -10, -10, -10, -10, -10, -10, -20,
    -10,   0,   0,   0,   0,   0,   0, -10,
    -10,   0,   5,  10,  10,   5,   0, -10,
    -10,   5,   5,  10,  10,   5,   5, -10,
    -10,   0,  10,  10,  10,  10,   0, -10,
    -10,  10,  10,  10,  10,  10,  10, -10,
    -10,   5,   0,   0,   0,   0,   5, -10,
    -20, -10, -90, -10, -10, -90, -10, -20 >>

rook_table == <<
      0,   0,   0,   0,   0,   0,   0,   0,
      5,  10,  10,  10,  10,  10,  10,   5,
     -5,   0,   0,   0,   0,   0,   0,  -5,
     -5,   0,   0,   0,   0,   0,   0,  -5,
     -5,   0,   0,   0,   0,   0,   0,  -5,
     -5,   0,   0,   0,   0,   0,   0,  -5,
     -5,   0,   0,   0,   0,   0,   0,  -5,
      0,   0,   0,   5,   5,   0,   0,   0 >>

queen_table == <<
    -20, -10, -10,  -5,  -5, -10, -10, -20,
    -10,   0,   0,   0,   0,   0,   0, -10,
    -10,   0,   5,   5,   5,   5,   0, -10,
     -5,   0,   5,   5,   5,   5,   0,  -5,
      0,   0,   5,   5,   5,   5,   0,  -5,
    -10,   5,   5,   5,   5,   5,   0, -10,
    -10,   0,   5,   0,   0,   0,   0, -10,
    -20, -10, -10,  70,  -5, -10, -10, -20 >>

king_table == <<
    -30, -40, -40, -50, -50, -40, -40, -30,
    -30, -40, -40, -50, -50, -40, -40, -30,
    -30, -40, -40, -50, -50, -40, -40, -30,
    -30, -40, -40, -50, -50, -40, -40, -30,
    -20, -30, -30, -40, -40, -30, -30, -20,
    -10, -20, -20, -20, -20, -20, -20, -10,
     20,  20,   0,   0,   0,   0,  20,  20,
     20,  30,  10,   0,   0,  10,  30,  20 >>

king_endgame_table == <<
    -50, -40, -30, -20, -20, -30, -40, -50,
    -30, -20, -10,   0,   0, -10, -20, -30,
    -30, -10,  20,  30,  30,  20, -10, -30,
    -30, -10,  30,  40,  40,  30, -10, -30,
    -30, -10,  30,  40,  40,  30, -10, -30,
    -30, -10,  20,  30,  30,  20, -10, -30,
    -30, -30,   0,   0,   0,   0, -30, -30,
    -50, -30, -30, -30, -30, -30, -30, -50 >>

(* table[i] of a Python list of 64: a negative index counts from the end.  *)
TableAt(table, i) == table[(IF i < 0 THEN i + 64 ELSE i) + 1]

(* Lines 822-824: the index a black piece on flatboard[i] is looked up at. *)
BlackIndex(i) == ((7 - i) \div 8) * 8 + (i % 8)

(* Lines 815-844: what the piece on flatboard[i] adds to the score.        *)
SquareScore(board, gamephase, i) ==
    LET sq == board[i \div 8][i % 8]
    IN  IF sq = Empty THEN 0
        ELSE LET piece == sq[1]
                 sign  == IF sq[2] = "b" THEN -1 ELSE 1
                 k     == IF sq[2] = "b" THEN BlackIndex(i) ELSE i
                 table == IF piece = "P" THEN pawn_table
                          ELSE IF piece = "N" THEN knight_table
                          ELSE IF piece = "B" THEN bishop_table
                          ELSE IF piece = "R" THEN rook_table
                          ELSE IF piece = "Q" THEN queen_table
                          ELSE IF gamephase = "opening" THEN king_table
                          ELSE king_endgame_table
             IN  sign * TableAt(table, k)

(* What the eight squares flatboard[8r] .. flatboard[8r+7] add.             *)
RowScore(board, gamephase, r) ==
    SquareScore(board, gamephase, 8 * r)
    + SquareScore(board, gamephase, 8 * r + 1)
    + SquareScore(board, gamephase, 8 * r + 2)
    + SquareScore(board, gamephase, 8 * r + 3)
    + SquareScore(board, gamephase, 8 * r + 4)
    + SquareScore(board, gamephase, 8 * r + 5)
    + SquareScore(board, gamephase, 8 * r + 6)
    + SquareScore(board, gamephase, 8 * r + 7)

(* Lines 809-845: the sum over "for i in range(64)".                       *)
pieceSquareTable(board, gamephase) ==
    RowScore(board, gamephase, 0) + RowScore(board, gamephase, 1)
    + RowScore(board, gamephase, 2) + RowScore(board, gamephase, 3)
    + RowScore(board, gamephase, 4) + RowScore(board, gamephase, 5)
    + RowScore(board, gamephase, 6) + RowScore(board, gamephase, 7)

(* Lines 846-860: the pawns that stand on a file an earlier pawn of the    *)
(* list stands on.                                                         *)
doubledPawns(board, color) ==
    LET listofpawns == lookfor(board, <<"P", color>>)
    IN  Cardinality({k \in 1..Len(listofpawns) :
            \E j \in 1..(k - 1) : listofpawns[j][1] = listofpawns[k][1]})

(* Lines 861-873.                                                          *)
blockedPawns(board, color) ==
    LET listofpawns == lookfor(board, <<"P", color>>)
    IN  Cardinality({k \in 1..Len(listofpawns) :
            LET x == listofpawns[k][1]
                y == listofpawns[k][2]
            IN  IF color = "w"
                THEN isOccupiedby(board, x, PyIdx(y - 1), "b")
                ELSE isOccupiedby(board, x, y + 1, "w")})

(* Lines 874-892.                                                          *)
isolatedPawns(board, color) ==
    LET listofpawns == lookfor(board, <<"P", color>>)
        xlist == {listofpawns[k][1] : k \in 1..Len(listofpawns)}
    IN  Cardinality({k \in 1..Len(listofpawns) :
            LET x == listofpawns[k][1]
            IN  IF x # 0 /\ x # 7
                THEN (x - 1) \notin xlist /\ (x + 1) \notin xlist
                ELSE IF x = 0 THEN 1 \notin xlist
                ELSE 6 \notin xlist})

(* Counter(flatboard)[piece].                                              *)
CountOf(board, piece, color) == Len(lookfor(board, <<piece, color>>))

(* Lines 761-808, for a position that is no checkmate.  numofmoves is the  *)
(* size of the history dictionary: a clone is built without a history      *)
(* argument (lines 131-135), so it holds the dictionary every GamePosition *)
(* holds, the default of line 75.                                          *)
(* Lines 782-783: the sum of a side's material.                            *)
Material(board, color) ==
    9 * CountOf(board, "Q", color) + 5 * CountOf(board, "R", color)
    + 3 * CountOf(board, "N", color) + 3 * CountOf(board, "B", color)
    + 1 * CountOf(board, "P", color)

(* Lines 784-787: the phase that chooses the king's table.                 *)
gamephaseOf(board, numofmoves) ==
    IF numofmoves > 40
       \/ (Material(board, "w") < 14 /\ Material(board, "b") < 14)
    THEN "ending" ELSE "opening"

StaticScore(board, numofmoves) ==
    LET Qw == CountOf(board, "Q", "w")
        Qb == CountOf(board, "Q", "b")
        Rw == CountOf(board, "R", "w")
        Rb == CountOf(board, "R", "b")
        Bw == CountOf(board, "B", "w")
        Bb == CountOf(board, "B", "b")
        Nw == CountOf(board, "N", "w")
        Nb == CountOf(board, "N", "b")
        Pw == CountOf(board, "P", "w")
        Pb == CountOf(board, "P", "b")
        gamephase == gamephaseOf(board, numofmoves)
        Dw == doubledPawns(board, "w")
        Db == doubledPawns(board, "b")
        Sw == blockedPawns(board, "w")
        Sb == blockedPawns(board, "b")
        Iw == isolatedPawns(board, "w")
        Ib == isolatedPawns(board, "b")
        evaluation1 == 900 * (Qw - Qb) + 500 * (Rw - Rb) + 330 * (Bw - Bb)
                       + 320 * (Nw - Nb) + 100 * (Pw - Pb)
                       + (-30) * (Dw - Db + Sw - Sb + Iw - Ib)
        evaluation2 == pieceSquareTable(board, gamephase)
    IN  evaluation1 + evaluation2

(* Lines 752-808.                                                          *)
evaluate(pos) ==
    IF isCheckmate(pos, "w") THEN -20000
    ELSE IF isCheckmate(pos, "b") THEN 20000
    ELSE StaticScore(pos.board, Cardinality(DOMAIN history))

-----------------------------------------------------------------------------
(* AI.negamax, lines 694-751.                                              *)
(*                                                                         *)
(* A call that is not the root call is the operator negamax: its result is *)
(* the value it returns together with the table as it leaves it.  The root *)
(* call is taken a step at a time by the actions below, one move of its    *)
(* loop a step, so that every stage of its locals is a state.              *)

(* Lines 650-654.                                                          *)
ColorOf(colorsign) == IF colorsign = 1 THEN "w" ELSE "b"

Max(a, b) == IF a >= b THEN a ELSE b

(* searched[key] = value.                                                  *)
Put(table, key, value) ==
    [k \in (DOMAIN table) \cup {key} |-> IF k = key THEN value ELSE table[k]]

(* Faulty: a move as good as the best so far replaces it.                  *)
Better_orEqual(value, best) == value >= best

(* Line 733.                                                               *)
Better(value, best) == value > best

RECURSIVE negamax(_, _, _, _, _, _)
RECURSIVE LoopOn(_, _, _, _, _, _, _, _, _)

(* The table of the search is a Python dictionary whose keys are the       *)
(* tuples pos2key returns.  The model indexes it by the same keys written  *)
(* as nine numbers, one for each row of the board (its squares as digits   *)
(* to the base 13) and one for the player and the rights: two keys are     *)
(* written alike exactly when they are equal.                              *)
PieceCode(sq) ==
    IF sq = Empty THEN 0
    ELSE (IF sq[2] = "w" THEN 0 ELSE 6)
         + (IF sq[1] = "P" THEN 1 ELSE IF sq[1] = "N" THEN 2
            ELSE IF sq[1] = "B" THEN 3 ELSE IF sq[1] = "R" THEN 4
            ELSE IF sq[1] = "Q" THEN 5 ELSE 6)

RowCode(row) ==
    PieceCode(row[1]) + 13 * (PieceCode(row[2]) + 13 * (PieceCode(row[3])
    + 13 * (PieceCode(row[4]) + 13 * (PieceCode(row[5])
    + 13 * (PieceCode(row[6]) + 13 * (PieceCode(row[7])
    + 13 * PieceCode(row[8])))))))

Bit(b) == IF b THEN 1 ELSE 0

KeyCode(key) ==
    <<RowCode(key[1][1]), RowCode(key[1][2]), RowCode(key[1][3]),
      RowCode(key[1][4]), RowCode(key[1][5]), RowCode(key[1][6]),
      RowCode(key[1][7]), RowCode(key[1][8]),
      key[2] + 2 * Bit(key[3][1][1]) + 4 * Bit(key[3][1][2])
      + 8 * Bit(key[3][2][1]) + 16 * Bit(key[3][2][2])>>

(* searched[key], an entry being the value stored (see Stored).            *)
Entry(table, key) == table[KeyCode(key)]

(* "key in searched".                                                      *)
Has(table, key) == KeyCode(key) \in DOMAIN table

(* searched[key] = e.                                                      *)
Store(table, key, e) == Put(table, KeyCode(key), e)

(* Faulty: a stored value is taken only if it was found with at least the *)
(* remaining depth d.                                                      *)
Hit_atDepth(table, key, d) ==
    Has(table, key) /\ Entry(table, key).depth >= d

(* Line 727: "key in searched".                                            *)
Hit(table, key, d) == Has(table, key)

(* Lines 730-731: the value of the position a move leads to is the         *)
(* opposite of what the call on it returns, and is stored under its key.   *)
(* An entry of the table is the value the program stores; beside it the    *)
(* model keeps the remaining depth d of the call that found the value and  *)
(* the number of the search that stored it, which the program does not     *)
(* store and nothing below reads but Hit_atDepth and the statements about  *)
(* the table.                                                              *)
Stored(key, r, d) ==
    [value |-> -r.value,
     searched |-> Store(r.searched, key,
                        [value |-> -r.value, depth |-> d, search |-> searchNo]),
     called |-> TRUE]

(* Lines 721-731: the move is made on a clone, and the value of the        *)
(* position it leads to is taken from the table or searched for.           *)
ChildResult(pos, move, depth, alpha, beta, colorsign, table) ==
    LET newpos == makemove(clone(pos), move[1][1], move[1][2],
                           move[2][1], move[2][2])
        key == pos2key(newpos)
    IN  IF Hit(table, key, depth - 1)
        THEN [value |-> Entry(table, key).value, searched |-> table,
              called |-> FALSE]
        ELSE Stored(key, negamax(newpos, depth - 1, -beta, -alpha,
                                 -colorsign, table), depth - 1)

(* Faulty: the bound of the node is compared with the opposite of the      *)
(* upper bound.                                                            *)
CutOff_oppositeBound(alpha, beta) == alpha >= -beta

(* Line 741: "if alpha>=beta", the loop is left.                           *)
CutOff(alpha, beta) == alpha >= beta

(* Lines 719-751 with root False, from moves[i] on, c being what lines     *)
(* 721-731 found for moves[i]: lines 732-744 for it, and then either the   *)
(* end of the loop (the break, or no move left) or its next turn, entered  *)
(* with the greater of the two values as the best one.                     *)
LoopOn(c, pos, moves, i, depth, alpha, beta, colorsign, best) ==
    IF CutOff(Max(alpha, c.value), beta) \/ i = Len(moves)
    THEN [value |-> IF Better(c.value, best) THEN c.value ELSE best,
          searched |-> c.searched]
    ELSE IF Better(c.value, best)
    THEN LoopOn(ChildResult(pos, moves[i + 1], depth, Max(alpha, c.value),
                            beta, colorsign, c.searched),
                pos, moves, i + 1, depth, Max(alpha, c.value), beta,
                colorsign, c.value)
    ELSE LoopOn(ChildResult(pos, moves[i + 1], depth, Max(alpha, c.value),
                            beta, colorsign, c.searched),
                pos, moves, i + 1, depth, Max(alpha, c.value), beta,
                colorsign, best)

(* Lines 705-751 with root False.                                          *)
negamax(pos, depth, alpha, beta, colorsign, table) ==
    IF depth = 0
    THEN [value |-> colorsign * evaluate(pos), searched |-> table]
    ELSE IF allMoves(pos, ColorOf(colorsign)) = <<>>
    THEN [value |-> colorsign * evaluate(pos), searched |-> table]
    ELSE LoopOn(ChildResult(pos, allMoves(pos, ColorOf(colorsign))[1], depth,
                            alpha, beta, colorsign, table),
                pos, allMoves(pos, ColorOf(colorsign)), 1, depth, alpha,
                beta, colorsign, -100000)

(* The root call.  Lines 1266-1272: it is given the live position, the     *)
(* level, the bounds -1000000 and 1000000 and the sign of the player to    *)
(* move.                                                                   *)
RootBeta == 1000000

RootSign == IF position.player = 0 THEN 1 ELSE -1

RootMoves == allMoves(position, ColorOf(RootSign))

(* Faulty: the book is never looked at.                                    *)
BookHit_never == FALSE

(* Line 699.                                                               *)
BookHit == pos2key(position) \in DOMAIN openings

RootFrame == <<rIdx, bestMove, bestValue, rAlpha, rValues, rCalls>>

(* Lines 696-702: the position is in the book, and one of its moves is     *)
(* written into bestMoveReturn.                                            *)
RootBook ==
    /\ rStage = "called"
    /\ BookHit
    /\ \E m \in SeqToSet(openings[pos2key(position)]) : bestMoveReturn' = m
    /\ rStage' = "returned"
    /\ move_thread' = "dead"
    /\ UNCHANGED <<engineVars, guiVars, isAI, AIPlayer, isAIThink,
                   isTransition, searchBoard, wTodo, wStage, wSeen,
                   pTodo, pStage, level, openings, searched, RootFrame>>
    /\ UNCHANGED <<searchNo, cloneVars>>

(* Lines 705-719: without a book move, the call returns a value at depth 0 *)
(* or without a move to play, and enters its loop otherwise.               *)
RootEnter ==
    /\ rStage = "called"
    /\ ~BookHit
    /\ IF level = 0 \/ RootMoves = <<>>
       THEN /\ rStage' = "returned"
            /\ move_thread' = "dead"
            /\ UNCHANGED <<bestMove, bestValue, rIdx>>
       ELSE /\ rStage' = "loop"
            /\ bestMove' = RootMoves[1]
            /\ bestValue' = -100000
            /\ rIdx' = 1
            /\ UNCHANGED move_thread
    /\ UNCHANGED <<engineVars, guiVars, isAI, AIPlayer, isAIThink,
                   isTransition, bestMoveReturn, searchBoard, wTodo, wStage, wSeen,
                   pTodo, pStage, level, openings, searched, rAlpha, rValues,
                   rCalls>>
    /\ UNCHANGED <<searchNo, cloneVars>>

(* Lines 732-744 at the root, c being what lines 721-731 found for the     *)
(* move the loop is at.                                                    *)
RootLoopOn(c) ==
    /\ searched' = c.searched
    /\ rValues' = Append(rValues, c.value)
    /\ rCalls' = rCalls + (IF c.called THEN 1 ELSE 0)
    /\ bestValue' = IF Better(c.value, bestValue) THEN c.value ELSE bestValue
    /\ bestMove' = IF Better(c.value, bestValue) THEN RootMoves[rIdx]
                   ELSE bestMove
    /\ rAlpha' = Max(rAlpha, c.value)
    /\ rIdx' = IF CutOff(Max(rAlpha, c.value), RootBeta)
               THEN Len(RootMoves) + 1
               ELSE rIdx + 1

(* Lines 720-744: one turn of the root call's loop.                        *)
RootStep ==
    /\ rStage = "loop"
    /\ rIdx <= Len(RootMoves)
    /\ RootLoopOn(ChildResult(position, RootMoves[rIdx], level, rAlpha,
                              RootBeta, RootSign, searched))
    /\ UNCHANGED <<engineVars, guiVars, aiVars, level, openings, rStage>>
    /\ UNCHANGED <<searchNo, cloneVars>>

(* Faulty: the table of the GUI is emptied when the root call returns.     *)
AfterReturn_emptied(table) == <<>>

(* Line 747: "searched = {}" binds the local name to a new dictionary and  *)
(* leaves the table of the GUI as it is.                                   *)
AfterReturn(table) == table

(* Lines 746-749: the loop is over.                                        *)
RootReturn ==
    /\ rStage = "loop"
    /\ rIdx > Len(RootMoves)
    /\ bestMoveReturn' = bestMove
    /\ searched' = AfterReturn(searched)
    /\ rStage' = "returned"
    /\ move_thread' = "dead"
    /\ UNCHANGED <<engineVars, guiVars, isAI, AIPlayer, isAIThink,
                   isTransition, searchBoard, wTodo, wStage, wSeen,
                   pTodo, pStage, level, openings, RootFrame>>
    /\ UNCHANGED <<searchNo, cloneVars>>

(* The positions the root call is given: those of the first MaxRootPly     *)
(* plies of the openings SearchLines, with the history the GUI has written *)
(* on the way (line 1249).                                                 *)
SearchLines == {2, 9, 10}

(* Opening 19 is searched at its last position only, the one that has the  *)
(* key of a position of opening 2.                                         *)
TransposedLines == {19}

MaxRootPly == 4

MaxLevel == 3

(* The third level is gone through where the root has this many moves at   *)
(* most.                                                                   *)
MaxDeepMoves == 2

RECURSIVE GameAfter(_, _)
GameAfter(l, k) ==
    IF k = 0
    THEN [position |-> StartPosition, history |-> <<>>]
    ELSE LET g == GameAfter(l, k - 1)
             m == Lines[l][k]
             newpos == makemove(g.position, m[1][1], m[1][2], m[2][1], m[2][2])
         IN  [position |-> newpos, history |-> addtoHistory(g.history, newpos)]

(* Lines 1231-1235: what recording the first k moves of opening l adds to  *)
(* a book.                                                                 *)
RECURSIVE Recorded(_, _, _)
Recorded(book, l, k) ==
    IF k = 0 THEN book
    ELSE LET b == Recorded(book, l, k - 1)
             key == pos2key(GameAfter(l, k - 1).position)
             m == Lines[l][k]
         IN  IF key \in DOMAIN b
             THEN IF InSeq(m, b[key]) THEN b
                  ELSE [b EXCEPT ![key] = Append(@, m)]
             ELSE Put(b, key, <<m>>)

(* The books a search is given: the empty one of GUI.initialize, and the   *)
(* one that recording the openings 18 (opening 2 and white's capture en    *)
(* passant), 4 and 10 leaves.                                              *)
Books ==
    {<<>>,
     Recorded(Recorded(Recorded(<<>>, 18, Len(Lines[18])), 4, Len(Lines[4])),
              10, Len(Lines[10]))}

SearchInit ==
    /\ line \in SearchLines \cup TransposedLines
    /\ ply \in 0..MaxRootPly
    /\ ply <= Len(Lines[line])
    /\ line \in TransposedLines => ply = Len(Lines[line])
    /\ position = GameAfter(line, ply).position
    /\ history = GameAfter(line, ply).history
    /\ before = (IF ply = 0 THEN StartPosition
                 ELSE GameAfter(line, ply - 1).position)
    /\ prevMove = (IF ply = 0 THEN <<-1, -1, -1, -1>>
                   ELSE <<Lines[line][ply][1][1], Lines[line][ply][1][2],
                          Lines[line][ply][2][1], Lines[line][ply][2][2]>>)
    /\ select = 2
    /\ isAI = TRUE
    /\ AIPlayer = position.player
    /\ initialize
    /\ bestMoveReturn = <<>>
    /\ move_thread = "alive"
    /\ isAIThink = TRUE
    /\ searchBoard = position.board
    /\ wTodo = <<>>
    /\ level \in 1..MaxLevel
    /\ level >= 3 => Len(RootMoves) <= MaxDeepMoves
    /\ openings \in Books
    /\ searched = <<>>
    /\ rStage = "called"
    /\ rIdx = 0
    /\ bestMove = <<>>
    /\ bestValue = 0
    /\ rAlpha = -1000000
    /\ rValues = <<>>
    /\ rCalls = 0
    /\ searchNo = 1
    /\ NoClone

SearchNext == RootBook \/ RootEnter \/ RootStep \/ RootReturn

SpecSearch == SearchInit /\ [][SearchNext]_vars

-----------------------------------------------------------------------------
(* The rules of chess, stated on the board alone: which squares a piece    *)
(* attacks (could capture on), whatever stands on them.                    *)

Abs(n) == IF n < 0 THEN -n ELSE n

Sgn(n) == IF n < 0 THEN -1 ELSE IF n > 0 THEN 1 ELSE 0

ClearBetween(board, fx, fy, tx, ty) ==
    LET n == IF Abs(tx - fx) > Abs(ty - fy) THEN Abs(tx - fx) ELSE Abs(ty - fy)
    IN  \A k \in 1..(n - 1) :
            board[fy + k * Sgn(ty - fy)][fx + k * Sgn(tx - fx)] = Empty

Attacks(board, fx, fy, tx, ty) ==
    LET p  == board[fy][fx]
        dx == tx - fx
        dy == ty - fy
        straight == (dx = 0 \/ dy = 0) /\ ClearBetween(board, fx, fy, tx, ty)
        diagonal == Abs(dx) = Abs(dy) /\ ClearBetween(board, fx, fy, tx, ty)
    IN  /\ p # Empty
        /\ <<dx, dy>> # <<0, 0>>
        /\ CASE p[1] = "P" -> Abs(dx) = 1 /\ dy = (IF p[2] = "w" THEN -1 ELSE 1)
             [] p[1] = "N" -> {Abs(dx), Abs(dy)} = {1, 2}
             [] p[1] = "K" -> Abs(dx) <= 1 /\ Abs(dy) <= 1
             [] p[1] = "R" -> straight
             [] p[1] = "B" -> diagonal
             [] p[1] = "Q" -> straight \/ diagonal
             [] OTHER -> FALSE

SquareAttacked(board, tx, ty, color) ==
    \E fx \in Idx : \E fy \in Idx :
        /\ board[fy][fx] # Empty
        /\ board[fy][fx][2] = color
        /\ Attacks(board, fx, fy, tx, ty)

(* The move that led to the current position.                              *)
Moved == before.board[prevMove[2]][prevMove[1]]

Mover == ToMove(before)

Captured == before.board[prevMove[4]][prevMove[3]]

KingSquare(board, color) == Head(lookfor(board, <<"K", color>>))

-----------------------------------------------------------------------------
(* C1: in every position reached by legal play, for every piece of the     *)
(* side to move and every target findPossibleSquares returns for it,       *)
(* making the move on a clone gives a position in which the mover's own    *)
(* king is not attacked by any opposing piece.                             *)
C1_Legality ==
    LET color == ToMove(position)
    IN  \A y \in Idx : \A x \in Idx :
            isOccupiedby(position.board, x, y, color) =>
                LET targets == findPossibleSquares(position, x, y, FALSE)
                IN  \A i \in 1..Len(targets) :
                        LET newpos == makemove(clone(position), x, y,
                                               targets[i][1], targets[i][2])
                            k == KingSquare(newpos.board, color)
                        IN  ~SquareAttacked(newpos.board, k[1], k[2], opp(color))

(* The side to move stands in check, has a move, and for one of its pieces *)
(* the final filter of findPossibleSquares removes a generated target.     *)
C1_Witness ==
    LET color == ToMove(position)
        k == KingSquare(position.board, color)
    IN  /\ SquareAttacked(position.board, k[1], k[2], opp(color))
        /\ allMoves(position, color) # <<>>
        /\ \E y \in Idx : \E x \in Idx :
              /\ isOccupiedby(position.board, x, y, color)
              /\ Len(findPossibleSquares(position, x, y, FALSE))
                    < Len(PseudoSquares(position, x, y, FALSE))

-----------------------------------------------------------------------------
(* C3: from the standard starting position allMoves for white returns      *)
(* exactly 20 moves, and the black replies over the 20 resulting positions *)
(* (each a clone with the move made on it) number exactly 400.             *)
RECURSIVE SumSeq(_)
SumSeq(ns) == IF ns = <<>> THEN 0 ELSE Head(ns) + SumSeq(Tail(ns))

Replies(pos, color) ==
    LET moves == allMoves(pos, color)
    IN  SumSeq([k \in 1..Len(moves) |->
            LET m == moves[k]
                newpos == makemove(clone(pos), m[1][1], m[1][2], m[2][1], m[2][2])
            IN  Len(allMoves(newpos, opp(color)))])

C3_Perft ==
    (line = 1 /\ ply = 0) =>
        /\ Len(allMoves(position, "w")) = 20
        /\ Replies(position, "w") = 400

(* A position one white move from the start, with its 20 black replies.    *)
C3_Witness ==
    /\ line = 1
    /\ ply = 1
    /\ Len(allMoves(position, "b")) = 20

-----------------------------------------------------------------------------
(* C4: a castling target (the king two squares toward a rook) is offered   *)
(* only if the side keeps that right, a rook stands on that corner, the    *)
(* squares between king and rook are empty, and no opposing piece, pawns   *)
(* included, attacks the king's square, the square it passes over or its   *)
(* destination.                                                            *)
CastlingOffered(pos, dir) ==
    LET k == KingSquare(pos.board, ToMove(pos))
    IN  /\ k[1] + 2 * dir \in Idx
        /\ InSeq(<<k[1] + 2 * dir, k[2]>>, findPossibleSquares(pos, k[1], k[2], FALSE))

CastlingAllowed(pos, dir) ==
    LET color  == ToMove(pos)
        k      == KingSquare(pos.board, color)
        corner == IF dir = 1 THEN 7 ELSE 0
        between == IF dir = 1 THEN {5, 6} ELSE {1, 2, 3}
    IN  /\ pos.castling[pos.player + 1][IF dir = 1 THEN 1 ELSE 2]
        /\ pos.board[k[2]][corner] # Empty
        /\ pos.board[k[2]][corner][1] = "R"
        /\ \A bx \in between : pos.board[k[2]][bx] = Empty
        /\ \A n \in 0..2 :
              ~SquareAttacked(pos.board, k[1] + n * dir, k[2], opp(color))

C4_CastlingGate ==
    \A dir \in {-1, 1} :
        CastlingOffered(position, dir) => CastlingAllowed(position, dir)

-----------------------------------------------------------------------------
(* C5: after a move that captures a rook standing on its home corner, the  *)
(* castling right of the rook's owner for that side is false.              *)
HomeCorner(color, x, y) ==
    /\ x \in {0, 7}
    /\ y = (IF color = "w" THEN 7 ELSE 0)

RightOf(pos, color, x) ==
    pos.castling[IF color = "w" THEN 1 ELSE 2][IF x = 7 THEN 1 ELSE 2]

C5_CapturedRookLosesRight ==
    (/\ ply > 0
     /\ Captured # Empty
     /\ Captured[1] = "R"
     /\ HomeCorner(Captured[2], prevMove[3], prevMove[4]))
    => ~RightOf(position, Captured[2], prevMove[3])

-----------------------------------------------------------------------------
(* C6: after a king move both rights of that king's side are false; after  *)
(* a rook leaves a corner square the right of that corner, and only that   *)
(* right, is false; the other side's rights are as before.                 *)
CornerSide(x, y) == <<IF y = 7 THEN 1 ELSE 2, IF x = 7 THEN 1 ELSE 2>>

C6_RightsLostByMoving ==
    ply > 0 =>
        LET own   == IF Moved[2] = "w" THEN 1 ELSE 2
            other == 3 - own
            x == prevMove[1]
            y == prevMove[2]
        IN  /\ Moved[1] = "K" =>
                /\ position.castling[own] = <<FALSE, FALSE>>
                /\ position.castling[other] = before.castling[other]
            /\ (Moved[1] = "R" /\ x \in {0, 7} /\ y \in {0, 7}) =>
                LET c == CornerSide(x, y)
                IN  /\ ~position.castling[c[1]][c[2]]
                    /\ \A s \in 1..2 : \A k \in 1..2 :
                          <<s, k>> # c =>
                              position.castling[s][k] = before.castling[s][k]

(* A rook has just left its corner while its side still held that right,   *)
(* the other right of that side being held too.                            *)
C6_Witness ==
    /\ ply > 0
    /\ Moved[1] = "R"
    /\ prevMove[1] \in {0, 7} /\ prevMove[2] \in {0, 7}
    /\ before.castling[CornerSide(prevMove[1], prevMove[2])[1]] = <<TRUE, TRUE>>

-----------------------------------------------------------------------------
(* C7: each of the four castling rights, once false, is never true again.  *)
C7_RightsMonotone ==
    [][\A s \in 1..2 : \A k \in 1..2 :
          ~position.castling[s][k] => ~position'.castling[s][k]]_vars

(* A rook has left its corner when the other right of its side was         *)
(* already lost.                                                           *)
C7_Witness ==
    /\ ply > 0
    /\ Moved[1] = "R"
    /\ prevMove[1] \in {0, 7} /\ prevMove[2] \in {0, 7}
    /\ LET c == CornerSide(prevMove[1], prevMove[2])
       IN  /\ ~before.castling[c[1]][3 - c[2]]
           /\ ~position.castling[c[1]][3 - c[2]]
           /\ before.castling[c[1]][c[2]]

-----------------------------------------------------------------------------
(* C8: in every position of legal play the board holds exactly one white   *)
(* king and exactly one black king.                                        *)
C8_OneKingEach ==
    /\ Len(lookfor(position.board, <<"K", "w">>)) = 1
    /\ Len(lookfor(position.board, <<"K", "b">>)) = 1

(* A capture has been made in a position where the side that moved before  *)
(* had given check.                                                        *)
C8_Witness ==
    /\ ply > 1
    /\ Captured # Empty
    /\ isCheck(before, Mover)

-----------------------------------------------------------------------------
(* C9: after every move the en passant target is the square the pawn       *)
(* passed over if the move was a pawn advance of two ranks, and the 'none' *)
(* value otherwise; after e2-e4 from the start it is e3, black to move.    *)
C9_EnPassantTarget ==
    ply > 0 =>
        LET x  == prevMove[1]
            y  == prevMove[2]
            y2 == prevMove[4]
        IN  /\ IF Moved[1] = "P" /\ Abs(y2 - y) = 2
               THEN position.EnP = <<x, IF Moved[2] = "w" THEN y - 1 ELSE y + 1>>
               ELSE position.EnP = NoEnP
            /\ (before = StartPosition /\ prevMove = <<4, 6, 4, 4>>) =>
                  /\ position.EnP = <<4, 5>>
                  /\ position.player = 1
                  /\ position.HMC = 0

(* A move that cleared the target the move before it had set.              *)
C9_Witness ==
    /\ ply > 1
    /\ before.EnP # NoEnP
    /\ position.EnP = NoEnP

-----------------------------------------------------------------------------
(* C10: when a pawn moves diagonally onto the en passant target, the enemy *)
(* pawn that made the two-square push leaves its square (the target's      *)
(* file, the capturer's rank), the capturing pawn stands on the target,    *)
(* and no other square changes.                                            *)
IsEnPassantCapture ==
    /\ ply > 0
    /\ Moved[1] = "P"
    /\ prevMove[3] # prevMove[1]
    /\ before.EnP = <<prevMove[3], prevMove[4]>>

C10_EnPassantCapture ==
    IsEnPassantCapture =>
        LET x  == prevMove[1]
            y  == prevMove[2]
            x2 == prevMove[3]
            y2 == prevMove[4]
        IN  /\ before.board[y][x2] = <<"P", opp(Moved[2])>>
            /\ \A r \in Idx : \A c \in Idx :
                  position.board[r][c] =
                      IF <<c, r>> = <<x2, y2>> THEN Moved
                      ELSE IF <<c, r>> = <<x, y>> \/ <<c, r>> = <<x2, y>> THEN Empty
                      ELSE before.board[r][c]

C10_Witness ==
    /\ IsEnPassantCapture
    /\ position.board[prevMove[4]][prevMove[3]] = Moved
    /\ before.board[prevMove[2]][prevMove[3]] # Empty

-----------------------------------------------------------------------------
(* C2: every move the GUI makes on the live position starts on a square    *)
(* holding a piece of the side to move and ends on a target that           *)
(* findPossibleSquares gives for that piece in the position the move is    *)
(* made on.                                                                *)
C2_GuiMovesAreLegal ==
    ply > 0 =>
        /\ Moved # Empty
        /\ Moved[2] = Mover
        /\ InSeq(<<prevMove[3], prevMove[4]>>,
                 findPossibleSquares(before, prevMove[1], prevMove[2], FALSE))

-----------------------------------------------------------------------------
(* C11: when the king makes a two-square castling move, the rook of the    *)
(* king's colour goes from that side's corner to the square beside the     *)
(* king's new square on the side the king crossed, the corner is emptied,  *)
(* and apart from the king's origin and destination no other square        *)
(* changes.                                                                *)
IsCastling ==
    /\ ply > 0
    /\ Moved[1] = "K"
    /\ Abs(prevMove[3] - prevMove[1]) = 2

C11_CastlingMovesRook ==
    IsCastling =>
        LET x  == prevMove[1]
            y  == prevMove[2]
            x2 == prevMove[3]
            y2 == prevMove[4]
            dir == Sgn(x2 - x)
            corner == IF dir = 1 THEN 7 ELSE 0
        IN  /\ y2 = y
            /\ before.board[y][corner] = <<"R", Moved[2]>>
            /\ \A r \in Idx : \A c \in Idx :
                  position.board[r][c] =
                      IF <<c, r>> = <<x2, y>> THEN Moved
                      ELSE IF <<c, r>> = <<x2 - dir, y>> THEN <<"R", Moved[2]>>
                      ELSE IF <<c, r>> = <<x, y>> \/ <<c, r>> = <<corner, y>>
                           THEN Empty
                      ELSE before.board[r][c]

(* A castling has been played and the rook stands beside the king.         *)
C11_Witness ==
    /\ IsCastling
    /\ position.board[prevMove[2]][prevMove[3] - Sgn(prevMove[3] - prevMove[1])]
          = <<"R", Moved[2]>>

-----------------------------------------------------------------------------
(* C12: after a move that takes a pawn onto its final rank the destination *)
(* holds a queen of the pawn's colour, and in every position of legal play *)
(* no pawn stands on row 0 or row 7.                                       *)
FinalRank(color) == IF color = "w" THEN 0 ELSE 7

IsPromotion ==
    /\ ply > 0
    /\ Moved[1] = "P"
    /\ prevMove[4] = FinalRank(Moved[2])

C12_AutoPromotion ==
    /\ IsPromotion => position.board[prevMove[4]][prevMove[3]] = <<"Q", Moved[2]>>
    /\ \A r \in {0, 7} : \A c \in Idx :
          position.board[r][c] # Empty => position.board[r][c][1] # "P"

(* A black pawn has reached row 7 by capturing.                            *)
C12_Witness ==
    /\ IsPromotion
    /\ Moved[2] = "b"
    /\ Captured # Empty

-----------------------------------------------------------------------------
(* C13: after every move the half move clock is 0 if the move was a        *)
(* capture (en passant included) or a pawn move, and otherwise the         *)
(* previous value plus 1; castling counts as neither.                      *)
C13_HalfMoveClock ==
    ply > 0 =>
        /\ position.HMC =
              IF Captured # Empty \/ IsEnPassantCapture \/ Moved[1] = "P"
              THEN 0
              ELSE before.HMC + 1
        /\ IsCastling => position.HMC = before.HMC + 1

(* A piece other than a pawn has captured when the clock stood above 0.    *)
C13_Witness ==
    /\ ply > 0
    /\ Moved[1] # "P"
    /\ Captured # Empty
    /\ before.HMC > 0
    /\ position.HMC = 0

-----------------------------------------------------------------------------
(* C14: for every position of legal play, with c its side to move,         *)
(* isCheckmate(p, c) and isStalemate(p) are never both true.               *)
C14_MateExcludesStalemate ==
    ~(isCheckmate(position, ToMove(position)) /\ isStalemate(position))

(* A stalemate: the side to move has no move and is not mated.             *)
C14_Witness ==
    /\ isStalemate(position)
    /\ ~isCheckmate(position, ToMove(position))
    /\ allMoves(position, ToMove(position)) = <<>>

-----------------------------------------------------------------------------
(* C15: whenever a move made on the live game, by the user or by the AI,   *)
(* leaves the half move clock at 100 or more, isDraw and chessEnded are    *)
(* set before any further move is made: they hold in every state with      *)
(* such a clock, and no step from such a state makes a move.               *)
C15_FiftyMoveDraw ==
    /\ [](position.HMC >= 100 => isDraw /\ chessEnded)
    /\ [][position.HMC >= 100 => ply' = ply]_vars

(* The AI's move has brought the clock to 100.                             *)
C15_Witness ==
    /\ position.HMC >= 100
    /\ before.HMC = 99
    /\ AIPlayer = 1
    /\ Mover = "b"
    /\ isDraw

-----------------------------------------------------------------------------
(* C16: whenever, after a move made on the live game, some key of history  *)
(* has a count of 3 or more, isDraw and chessEnded are set before any      *)
(* further move is made: they hold in every state with such a count, and   *)
(* no step from such a state makes a move.                                 *)
ThriceInHistory == \E key \in DOMAIN history : history[key] >= 3

-----------------------------------------------------------------------------
(* C17: two positions get equal keys from pos2key if and only if they have *)
(* the same board, the same player to move and the same castling rights,   *)
(* whatever their en passant targets and half move clocks are.  The        *)
(* position of the game is compared with the position before it and with   *)
(* the positions that differ from it in any choice of: a square of the     *)
(* board, the player, one of the four rights, the en passant target, the   *)
(* clock.                                                                  *)
KeyVariants(p) ==
    LET boards == {p.board,
                   [p.board EXCEPT ![6][4] = Empty],
                   [p.board EXCEPT ![3][3] = <<"N", "w">>]}
        rights == {p.castling} \cup
                  {[p.castling EXCEPT ![i][j] = ~@] : i \in 1..2, j \in 1..2}
        targets == {p.EnP, NoEnP, <<3, 2>>}
        clocks == {p.HMC, p.HMC + 1}
    IN  {GamePosition(b, pl, c, e, h) :
            b \in boards, pl \in {0, 1}, c \in rights, e \in targets,
            h \in clocks}

SameKeyParts(p, q) ==
    p.board = q.board /\ p.player = q.player /\ p.castling = q.castling

C17_KeyComponents ==
    \A q \in KeyVariants(position) \cup {before} :
        (pos2key(position) = pos2key(q)) <=> SameKeyParts(position, q)

(* The position has an en passant target and a running clock, and a        *)
(* position with neither has its key; a position with one right less has   *)
(* another key.                                                            *)
C17_Witness ==
    /\ position.EnP # NoEnP
    /\ position.HMC = 0
    /\ position.castling # StartPosition.castling
    /\ \E q \in KeyVariants(position) :
           /\ q.EnP = NoEnP /\ q.HMC = 1
           /\ pos2key(q) = pos2key(position)
    /\ \E q \in KeyVariants(position) :
           /\ q.board = position.board /\ q.player = position.player
           /\ q.castling # position.castling
           /\ pos2key(q) # pos2key(position)

-----------------------------------------------------------------------------
(* C18: when the key of the root position is in openings, the root call of *)
(* negamax writes one of the moves recorded under that key into            *)
(* bestMoveReturn and returns: it makes no recursive call and leaves the   *)
(* table of values and the position as they are.                           *)
C18_BookShortCircuit ==
    [][(rStage = "called" /\ pos2key(position) \in DOMAIN openings) =>
          /\ rStage' = "returned"
          /\ InSeq(bestMoveReturn', openings[pos2key(position)])
          /\ rCalls' = rCalls
          /\ searched' = searched
          /\ position' = position
          /\ openings' = openings]_vars

(* The root call has returned a move of a book entry that holds more than  *)
(* one.                                                                    *)
C18_Witness ==
    /\ rStage = "returned"
    /\ pos2key(position) \in DOMAIN openings
    /\ Len(openings[pos2key(position)]) >= 2
    /\ InSeq(bestMoveReturn, openings[pos2key(position)])
    /\ rCalls = 0
    /\ searched = <<>>

-----------------------------------------------------------------------------
(* C19: without a book move, the best move of the root call is at every    *)
(* turn of its loop the first of the moves gone through, in the order of   *)
(* allMoves, whose value is the greatest of the values found, and that     *)
(* move is what the call returns: a later move of equal value does not     *)
(* replace it.                                                             *)
IsFirstMax(values, k) ==
    /\ \A j \in 1..Len(values) : values[j] <= values[k]
    /\ \A j \in 1..(k - 1) : values[j] < values[k]

C19_RootTieBreak ==
    (rStage \in {"loop", "returned"} /\ rValues # <<>>) =>
        /\ \E k \in 1..Len(rValues) :
               IsFirstMax(rValues, k) /\ bestMove = RootMoves[k]
        /\ rStage = "returned" => bestMoveReturn = bestMove

(* The call has returned the first of several moves of the greatest value. *)
C19_Witness ==
    /\ rStage = "returned"
    /\ rValues # <<>>
    /\ \E k \in 1..Len(rValues) :
           /\ IsFirstMax(rValues, k)
           /\ bestMoveReturn = RootMoves[k]
           /\ \E j \in (k + 1)..Len(rValues) : rValues[j] = rValues[k]

-----------------------------------------------------------------------------
(* C20: from the start of a search until the primary thread makes the move *)
(* it has returned, the board of the live position is at every instant the *)
(* board the search was started on.  The second part of the claim, that    *)
(* the primary thread writes nothing into the position the worker is       *)
(* searching, is the action formula below it.                              *)
C20_LiveBoardUntouched ==
    isAIThink => position.board = searchBoard

(* While the worker is alive no step of the primary thread's createShades  *)
(* changes the board of the position the worker was given.                 *)
C20_PrimaryWritesNothing ==
    [][(move_thread = "alive" /\ pStage # 0) =>
          position'.board = position.board]_vars

(***************************************************************************)
(* C21.  When the AI moves, the move applied to the live game is the       *)
(* (origin, destination) pair that the search started last has written     *)
(* into bestMoveReturn, and each completed search makes exactly one move   *)
(* on the live position: the step that ends the thinking plays that pair   *)
(* and no other step plays a move while the AI thinks.                     *)
(***************************************************************************)
C21_SearchEnds == isAIThink /\ ~isAIThink'

C21_AppliesReturnedMove ==
    [][/\ C21_SearchEnds =>
            /\ move_thread = "dead"
            /\ Len(bestMoveReturn) = 2
            /\ ply' = ply + 1
            /\ prevMove' = <<bestMoveReturn[1][1], bestMoveReturn[1][2],
                             bestMoveReturn[2][1], bestMoveReturn[2][2]>>
            /\ position' = makemove(position,
                                    bestMoveReturn[1][1], bestMoveReturn[1][2],
                                    bestMoveReturn[2][1], bestMoveReturn[2][2])
       /\ (isAIThink /\ ply' # ply) => C21_SearchEnds
       /\ (~isAIThink /\ isAIThink') => bestMoveReturn' = <<>>]_vars

(* The AI has played the pair its search returned, after the opening.      *)
C21_Witness ==
    /\ isTransition
    /\ ply > Len(Lines[line])
    /\ Len(bestMoveReturn) = 2
    /\ prevMove = <<bestMoveReturn[1][1], bestMoveReturn[1][2],
                    bestMoveReturn[2][1], bestMoveReturn[2][2]>>
    /\ bestMoveReturn # allMoves(before, ToMove(before))[1]

(***************************************************************************)
(* C22.  At most one search worker is alive at any time: a search thread   *)
(* is alive only while isAIThink holds, a new one is started only when     *)
(* isAIThink is false and no worker is alive, and no move of the user is   *)
(* applied to the live position while isAIThink is true (the only move     *)
(* made then is the one that ends the thinking, with the worker dead).     *)
(***************************************************************************)
C22_ThreadStarted == move_thread' = "alive" /\ wStage' = 0 /\ ply' # ply

C22_OneWorker ==
    /\ [](move_thread = "alive" => isAIThink)
    /\ [][/\ C22_ThreadStarted => (~isAIThink /\ move_thread # "alive")
          /\ (isAIThink /\ ply' # ply) =>
                 (move_thread = "dead" /\ ~isAIThink' /\ move_thread' = "dead")
          /\ (~isAIThink /\ isAIThink') => move_thread' = "alive"]_vars

(* The second search of a game runs: the user has answered the AI's move   *)
(* and the thread started then is alive while the first one is dead.       *)
C22_Witness ==
    /\ move_thread = "alive"
    /\ isAIThink
    /\ ply >= 2
    /\ bestMoveReturn = <<>>
    /\ ToMove(position) = (IF AIPlayer = 0 THEN "w" ELSE "b")

-----------------------------------------------------------------------------
(* GamePosition.clone and the methods that change a GamePosition, called   *)
(* on a position p and on its clone c.  The history of a GamePosition is   *)
(* the dictionary it was constructed with, and the default value of the    *)
(* parameter (line 75) is one dictionary, made when the def statement is   *)
(* run: the live position (line 1006) and every clone (lines 131-135) are  *)
(* constructed without a history and so hold that same dictionary, which   *)
(* the variable history stands for.  position is p.                        *)

(* Line 126 (gethistory) for a GamePosition constructed without a history. *)
gethistory(obj) == history

CloneLines == {2, 5}

MaxClonePly == 4

MaxCloneOps == 3

MaxCloneMoves == 3

(* The first moves of allMoves, which the callers pick from.               *)
FirstMoves(pos) ==
    LET moves == allMoves(pos, ToMove(pos))
    IN  {moves[k] : k \in 1..(IF Len(moves) < MaxCloneMoves THEN Len(moves)
                              ELSE MaxCloneMoves)}

CloneFrame == <<prevMove, before, line, ply, guiVars, aiVars, searchVars>>

(* c = p.clone(), lines 127-136.                                           *)
Clone ==
    /\ cloned = Empty
    /\ cloned' = clone(position)
    /\ lastOp' = "clone"
    /\ UNCHANGED <<position, history, cOps, CloneFrame>>

(* makemove(c, x, y, x2, y2).                                              *)
CloneMakemove ==
    /\ cloned # Empty
    /\ cOps < MaxCloneOps
    /\ \E m \in FirstMoves(cloned) :
           cloned' = makemove(cloned, m[1][1], m[1][2], m[2][1], m[2][2])
    /\ lastOp' = "c.makemove"
    /\ cOps' = cOps + 1
    /\ UNCHANGED <<position, history, CloneFrame>>

(* c.addtoHistory(c), lines 121-125.                                       *)
CloneAddToHistory ==
    /\ cloned # Empty
    /\ cOps < MaxCloneOps
    /\ history' = addtoHistory(gethistory(cloned), cloned)
    /\ lastOp' = "c.addtoHistory"
    /\ cOps' = cOps + 1
    /\ UNCHANGED <<position, cloned, CloneFrame>>

(* makemove(p, x, y, x2, y2).                                              *)
OwnMakemove ==
    /\ cloned # Empty
    /\ cOps < MaxCloneOps
    /\ \E m \in FirstMoves(position) :
           position' = makemove(position, m[1][1], m[1][2], m[2][1], m[2][2])
    /\ lastOp' = "p.makemove"
    /\ cOps' = cOps + 1
    /\ UNCHANGED <<history, cloned, CloneFrame>>

(* p.addtoHistory(p).                                                      *)
OwnAddToHistory ==
    /\ cloned # Empty
    /\ cOps < MaxCloneOps
    /\ history' = addtoHistory(gethistory(position), position)
    /\ lastOp' = "p.addtoHistory"
    /\ cOps' = cOps + 1
    /\ UNCHANGED <<position, cloned, CloneFrame>>

(* p is a position of the first MaxClonePly plies of the openings          *)
(* CloneLines, with the history written on the way.                        *)
CloneInit ==
    /\ line \in CloneLines
    /\ ply \in 0..MaxClonePly
    /\ position = GameAfter(line, ply).position
    /\ history = GameAfter(line, ply).history
    /\ prevMove = <<-1, -1, -1, -1>>
    /\ before = position
    /\ select = -1
    /\ isAI = FALSE
    /\ AIPlayer = -1
    /\ initialize
    /\ NoSearch
    /\ level = 0
    /\ NoRoot
    /\ NoClone

CloneNext ==
    \/ Clone
    \/ CloneMakemove
    \/ CloneAddToHistory
    \/ OwnMakemove
    \/ OwnAddToHistory

SpecClone == CloneInit /\ [][CloneNext]_vars

(***************************************************************************)
(* C23.  Clone independence: after c = p.clone(), no operation on c        *)
(* (makemove, addtoHistory) changes any component of p (board, side to     *)
(* move, castling rights, en-passant target, half-move clock, history),    *)
(* and no operation on p changes any component of c.                       *)
(***************************************************************************)
C23_CloneIndependent ==
    [][/\ lastOp' \in {"c.makemove", "c.addtoHistory"} =>
            /\ position' = position
            /\ gethistory(position)' = gethistory(position)
       /\ lastOp' \in {"p.makemove", "p.addtoHistory"} =>
            /\ cloned' = cloned
            /\ gethistory(cloned)' = gethistory(cloned)]_vars

(* The part of C23 that speaks of the fields clone() copies.               *)
C23_FieldsIndependent ==
    [][/\ lastOp' \in {"c.makemove", "c.addtoHistory"} => position' = position
       /\ lastOp' \in {"p.makemove", "p.addtoHistory"} => cloned' = cloned]_vars

-----------------------------------------------------------------------------
(* The colour-swapped vertical mirror of a position: every piece goes from *)
(* row r to row 7 - r and changes colour, and so do the side to move, the  *)
(* castling rights and the en-passant target.                              *)
SwapColour(sq) ==
    IF sq = Empty THEN Empty ELSE <<sq[1], IF sq[2] = "w" THEN "b" ELSE "w">>

MirrorPosition(pos) ==
    [board    |-> [r \in 0..7 |-> [c \in 0..7 |-> SwapColour(pos.board[7 - r][c])]],
     player   |-> 1 - pos.player,
     castling |-> <<pos.castling[2], pos.castling[1]>>,
     EnP      |-> IF pos.EnP = NoEnP THEN NoEnP
                  ELSE <<pos.EnP[1], 7 - pos.EnP[2]>>,
     HMC      |-> pos.HMC]

(* The entry of the table that a white piece on row 7 - r, column c reads, *)
(* i being the index of row r, column c.                                   *)
MirrorIndex(i) == (7 - (i \div 8)) * 8 + (i % 8)

(***************************************************************************)
(* C24.  Piece-square mirroring: a black piece on row r, column c reads    *)
(* the table entry that a white piece of its kind on row 7 - r, column c   *)
(* reads; hence evaluate of a position and of its colour-swapped vertical  *)
(* mirror are negatives of each other, and the standard starting position  *)
(* evaluates to 0.                                                         *)
(***************************************************************************)
C24_Mirroring ==
    /\ \A i \in 0..63 :
           TableAt(pawn_table, BlackIndex(i)) = TableAt(pawn_table, MirrorIndex(i))
    /\ evaluate(MirrorPosition(position)) = -evaluate(position)
    /\ evaluate(StartPosition) = 0

(* The last two parts of C24, each on its own.                             *)
C24_MirrorNegates == evaluate(MirrorPosition(position)) = -evaluate(position)

C24_StartIsZero == position = StartPosition => evaluate(position) = 0

(* The pawns of a colour that have an enemy pawn on the square directly    *)
(* ahead of them (row y - 1 for white, y + 1 for black).                   *)
PawnsFacingPawn(board, color) ==
    {sq \in SeqToSet(lookfor(board, <<"P", color>>)) :
        LET y2 == IF color = "w" THEN sq[2] - 1 ELSE sq[2] + 1
        IN  y2 \in 0..7 /\ board[y2][sq[1]] = <<"P", opp(color)>>}

(***************************************************************************)
(* C25.  blockedPawns(board, color) is the number of pawns of that colour  *)
(* that have an enemy pawn on the square directly ahead of them; a pawn    *)
(* with an enemy piece other than a pawn directly ahead is not counted.    *)
(***************************************************************************)
C25_BlockedByPawnsOnly ==
    \A color \in {"w", "b"} :
        blockedPawns(position.board, color)
            = Cardinality(PawnsFacingPawn(position.board, color))

-----------------------------------------------------------------------------
(* A game against the AI from its first move on, the search being the root *)
(* call above: the table the searches of the game share is the one of      *)
(* GUI.initialize (line 1927), which no line empties afterwards.  The user *)
(* plays the moves of the game's line; the schedules followed are those in *)
(* which the root call reads the board after the handler that has started  *)
(* its thread has come to its end, and GUI.Thinking is not due before the  *)
(* call returns.                                                           *)

(* The games followed: the line, the level chosen in the menu (lines 2155, *)
(* 2162, 2169) and the colour the AI plays.                                *)
PlayGames ==
    {[line |-> 15, level |-> 1, AIPlayer |-> 1],
     [line |-> 16, level |-> 2, AIPlayer |-> 0],
     [line |-> 16, level |-> 3, AIPlayer |-> 0]}

(* The searches followed after those that answer the moves of the line.    *)
MaxFreeSearches == 1

SearchBudget ==
    (IF AIPlayer = 0 THEN (Len(Lines[line]) + 1) \div 2
     ELSE Len(Lines[line]) \div 2) + MaxFreeSearches

(* Line 694: the thread started last enters negamax.                       *)
RootCalled ==
    /\ move_thread = "alive"
    /\ rStage \in {"none", "returned"}
    /\ PrimaryIdle
    /\ ~crashed /\ ~gameEnded
    /\ searchNo < SearchBudget
    /\ rStage' = "called"
    /\ rIdx' = 0
    /\ bestMove' = <<>>
    /\ bestValue' = 0
    /\ rAlpha' = -1000000
    /\ rValues' = <<>>
    /\ rCalls' = 0
    /\ searchNo' = searchNo + 1
    /\ UNCHANGED <<engineVars, guiVars, aiVars, level, openings, searched,
                   cloneVars>>

PlayInit ==
    /\ position = StartPosition
    /\ history = <<>>
    /\ prevMove = <<-1, -1, -1, -1>>
    /\ before = StartPosition
    /\ ply = 0
    /\ select = 2
    /\ isAI = TRUE
    /\ \E g \in PlayGames :
           line = g.line /\ level = g.level /\ AIPlayer = g.AIPlayer
    /\ initialize
    /\ call_board
    /\ NoRoot
    /\ NoClone

PlayNext ==
    \/ \E sq \in DownInputs : MouseDown(sq)
    \/ \E sq \in UpInputs : MouseUp(sq)
    \/ PrimaryRead
    \/ PrimaryWrite
    \/ RootCalled
    \/ RootEnter
    \/ RootStep
    \/ RootReturn
    \/ AIComplete
    \/ TransitionEnd

SpecPlay == PlayInit /\ [][PlayNext]_vars

(***************************************************************************)
(* C26.  evaluate uses the endgame king table exactly when more than 40    *)
(* half-moves have been played in the game or both sides' material sums    *)
(* (queen 9, rook 5, bishop 3, knight 3, pawn 1) are below 14, and the     *)
(* opening king table otherwise.  The table is the one of the phase that   *)
(* evaluate finds (lines 784-787) with the history of the live game, which *)
(* every position it is called on shares.                                  *)
(***************************************************************************)
C26_EndgameTable ==
    (gamephaseOf(position.board, Cardinality(DOMAIN gethistory(position)))
        = "ending")
    <=> (ply > 40
         \/ (Material(position.board, "w") < 14
             /\ Material(position.board, "b") < 14))

(* The number of times a position with key k has stood on the board since  *)
(* the game started, the starting position included, while the game        *)
(* follows its line.                                                       *)
MaxCountedPly == 9

StoodSoFar(k) ==
    Cardinality({j \in 0..ply : pos2key(GameAfter(line, j).position) = k})

HistoryOf(k) == IF k \in DOMAIN history THEN history[k] ELSE 0

FollowsLine == ply <= Len(Lines[line]) /\ ply <= MaxCountedPly /\ ~crashed

(***************************************************************************)
(* C28.  At every point of the live game and for every key k, history[k]   *)
(* is the number of times a position with key k has stood on the board     *)
(* since the game started, counting every position that has occurred; so   *)
(* the draw signal is raised at the third occurrence of any position.      *)
(***************************************************************************)
C28_HistoryCounts ==
    FollowsLine =>
        /\ \A j \in 0..ply :
               HistoryOf(pos2key(GameAfter(line, j).position))
                   = StoodSoFar(pos2key(GameAfter(line, j).position))
        /\ (\E j \in 0..ply :
               StoodSoFar(pos2key(GameAfter(line, j).position)) >= 3)
           => isDraw

(* The second half of C28 on its own.                                      *)
C28_DrawAtThird ==
    FollowsLine =>
        ((\E j \in 0..ply :
             StoodSoFar(pos2key(GameAfter(line, j).position)) >= 3)
         => isDraw)

(* What the history counts: the times a position has stood after a move.   *)
C28_CountsAfterMoves ==
    FollowsLine =>
        \A j \in 0..ply :
            HistoryOf(pos2key(GameAfter(line, j).position))
                = Cardinality({i \in 1..ply :
                      pos2key(GameAfter(line, i).position)
                          = pos2key(GameAfter(line, j).position)})

(* The position the move the root loop is at leads to, and the one the     *)
(* move before it led to.                                                  *)
RootChild(i) ==
    makemove(clone(position), RootMoves[i][1][1], RootMoves[i][1][2],
             RootMoves[i][2][1], RootMoves[i][2][2])

(***************************************************************************)
(* C29.  A hit in the table returns the stored value without regard to the *)
(* remaining depth.  In every state of a game, for every move of the       *)
(* position whose resulting key is in the table, lines 721-731 take the    *)
(* stored value, make no call and leave the table alone whatever the depth *)
(* of the call is (C29_AnyDepth); and whenever the root loop of a search   *)
(* comes to such a move, the stored value is what it records, without a    *)
(* call.  There are executions (C29_Witness) in which a value stored at    *)
(* remaining depth d is returned for its key at a remaining depth greater  *)
(* than d, in a later search of the game that shares the table.            *)
(***************************************************************************)
C29_AnyDepth ==
    \A move \in SeqToSet(RootMoves) :
        LET key == pos2key(makemove(clone(position), move[1][1], move[1][2],
                                    move[2][1], move[2][2]))
        IN  Has(searched, key)
            => \A depth \in 1..MaxLevel :
                   LET c == ChildResult(position, move, depth, -RootBeta,
                                        RootBeta, RootSign, searched)
                   IN  /\ c.value = Entry(searched, key).value
                       /\ c.searched = searched
                       /\ ~c.called

C29_HitIgnoresDepth ==
    /\ []C29_AnyDepth
    /\ [][(rStage = "loop" /\ rIdx <= Len(RootMoves) /\ rValues' # rValues
           /\ Has(searched, pos2key(RootChild(rIdx))))
          => /\ rCalls' = rCalls
             /\ searched' = searched
             /\ rValues' = Append(rValues,
                                  Entry(searched, pos2key(RootChild(rIdx))).value)
         ]_vars

(* In the second search of a game of level 3 the first root move has been  *)
(* given, without a call, the value that the first search had stored for   *)
(* the position at remaining depth 0, where the remaining depth is 2.      *)
C29_Witness ==
    /\ searchNo = 2
    /\ level = 3
    /\ rStage = "loop"
    /\ rIdx = 2
    /\ rCalls = 0
    /\ Has(searched, pos2key(RootChild(1)))
    /\ Entry(searched, pos2key(RootChild(1))).depth = 0
    /\ Entry(searched, pos2key(RootChild(1))).depth < level - 1
    /\ rValues = <<Entry(searched, pos2key(RootChild(1))).value>>

-----------------------------------------------------------------------------
(* Negamax without the bounds and without the table: every move of every   *)
(* position down to the depth is gone through, and the value of a position *)
(* is the greatest of the opposites of the values of the positions its     *)
(* moves lead to.                                                          *)
RECURSIVE plainNegamax(_, _, _)
RECURSIVE PlainLoop(_, _, _, _, _, _, _)

(* The value of a move: the opposite of the value of the position it leads *)
(* to.                                                                     *)
PlainChild(pos, move, depth, colorsign) ==
    -plainNegamax(makemove(clone(pos), move[1][1], move[1][2], move[2][1],
                           move[2][2]),
                  depth - 1, -colorsign)

(* The greatest value from moves[i] on, v being the value of moves[i] and  *)
(* best the greatest value before it.                                      *)
PlainLoop(v, pos, moves, i, depth, colorsign, best) ==
    IF i = Len(moves)
    THEN Max(best, v)
    ELSE IF v > best
    THEN PlainLoop(PlainChild(pos, moves[i + 1], depth, colorsign), pos,
                   moves, i + 1, depth, colorsign, v)
    ELSE PlainLoop(PlainChild(pos, moves[i + 1], depth, colorsign), pos,
                   moves, i + 1, depth, colorsign, best)

plainNegamax(pos, depth, colorsign) ==
    IF depth = 0
    THEN colorsign * evaluate(pos)
    ELSE IF allMoves(pos, ColorOf(colorsign)) = <<>>
    THEN colorsign * evaluate(pos)
    ELSE PlainLoop(PlainChild(pos, allMoves(pos, ColorOf(colorsign))[1],
                              depth, colorsign),
                   pos, allMoves(pos, ColorOf(colorsign)), 1, depth,
                   colorsign, -100000)

(* The values plain negamax gives the moves of the root, in their order.   *)
PlainValues(pos, moves, depth, colorsign) ==
    [i \in 1..Len(moves) |-> PlainChild(pos, moves[i], depth, colorsign)]

(* The first of the moves with the greatest value.                         *)
FirstBest(moves, values) ==
    moves[CHOOSE k \in 1..Len(moves) :
              /\ \A j \in 1..Len(moves) : values[j] <= values[k]
              /\ \A j \in 1..(k - 1) : values[j] < values[k]]

(* The roots the exhaustive search is made at: every root of the first     *)
(* MaxPlainPly plies, and the roots of the third level.                    *)
MaxPlainPly == 1

Compared == ply <= MaxPlainPly \/ level >= 3

PlainVisits(pos, moves, colorsign) ==
    Len(moves)
    + SumSeq([i \in 1..Len(moves) |->
                 Len(allMoves(makemove(clone(pos), moves[i][1][1],
                                       moves[i][1][2], moves[i][2][1],
                                       moves[i][2][2]),
                              ColorOf(-colorsign)))])

-----------------------------------------------------------------------------
(* C31: under every interleaving of the search worker with the primary     *)
(* thread's check queries on the same position, each thread sees every     *)
(* piece with its true kind: the square a thread is about to read holds    *)
(* the piece the position had when the search was started, and so does     *)
(* the whole board when the worker's root call has listed its moves and    *)
(* goes on to clone the position (line 722).                               *)
C31_TrueKindsObserved ==
    /\ (move_thread = "alive" /\ pTodo # <<>> /\ pStage = 0) =>
           position.board[Head(pTodo)[2]][Head(pTodo)[1]]
               = searchBoard[Head(pTodo)[2]][Head(pTodo)[1]]
    /\ (move_thread = "alive" /\ wTodo # <<>> /\ wStage = 0) =>
           position.board[Head(wTodo)[2]][Head(wTodo)[1]]
               = searchBoard[Head(wTodo)[2]][Head(wTodo)[1]]
    /\ (move_thread = "alive" /\ wTodo = <<>> /\ wStage = 0) =>
           position.board = searchBoard

-----------------------------------------------------------------------------
(* C32: in every position reached by legal play, castling is offered to    *)
(* the side to move only if no earlier move of the game left or reached    *)
(* the king's square or the corner of the rook that would take part, and   *)
(* the piece on that corner is a rook of the king's own colour.  The moves *)
(* made so far are those of the game's line.                               *)
Touched(sq) ==
    \E i \in 1..ply : Lines[line][i][1] = sq \/ Lines[line][i][2] = sq

C32_CastlingOnlyUnmoved ==
    ply <= Len(Lines[line]) =>
        \A dir \in {-1, 1} :
            CastlingOffered(position, dir) =>
                LET color  == ToMove(position)
                    k      == KingSquare(position.board, color)
                    corner == <<(IF dir = 1 THEN 7 ELSE 0), k[2]>>
                IN  /\ ~Touched(k)
                    /\ ~Touched(corner)
                    /\ position.board[corner[2]][corner[1]] = <<"R", color>>

-----------------------------------------------------------------------------
-----------------------------------------------------------------------------
(* C34: once chessEnded is set, no step makes a move on the live position  *)
(* (the count of moves, the last move and the side to move stay as they    *)
(* are) and no step starts a search worker.                                *)
C34_NothingAfterEnd ==
    [][chessEnded =>
          /\ ply' = ply
          /\ prevMove' = prevMove
          /\ position'.player = position.player
          /\ (move_thread' = "alive" => move_thread = "alive")
          /\ (isAIThink' => isAIThink)]_vars

(* The animation of the AI's move that ended game 13 by repetition has     *)
(* come to its end: the loop has gone on after chessEnded was set.         *)
C34_Witness ==
    /\ chessEnded
    /\ isDraw
    /\ line = 13
    /\ ply = Len(Lines[13])
    /\ AIPlayer = 0
    /\ move_thread = "dead"
    /\ ~isTransition
    /\ ~crashed

-----------------------------------------------------------------------------
(* C35: isDraw and a winner by checkmate are never both set, whatever the  *)
(* move that ended the game, the one that brings the half move clock to    *)
(* 100 included.                                                           *)
C35_DrawExcludesWinner ==
    ~(isDraw /\ winner # "")

-----------------------------------------------------------------------------
(* C36: a search is started only on a position in which the side to move   *)
(* has a legal move, and with a depth of at least 1; so whenever the       *)
(* primary thread finds the worker finished, bestMoveReturn holds one      *)
(* (origin, destination) pair, and the branch for a missing move is not    *)
(* taken.                                                                  *)
C36_MoveAtCompletion ==
    /\ move_thread = "alive" =>
           /\ level >= 1
           /\ allMoves([position EXCEPT !.board = searchBoard],
                       ToMove(position)) # <<>>
    /\ (isAIThink /\ move_thread = "dead") => Len(bestMoveReturn) = 2

-----------------------------------------------------------------------------
(* The game of line 21 against the AI, with the scheduling the program     *)
(* has: a thread that can take a step is given the processor in the end    *)
(* (worker and primary thread), and every turn of the event loop comes to  *)
(* the test of lines 1567-1568 and to the animation of lines 1542-1554,    *)
(* however often Thinking has run before.                                  *)
LiveLines == {21}

AILiveInit == AIStart(LiveLines, LiveLines, {})

(* Lines 713-749 and 1567-1568: when WorkerFinish and AIComplete can be    *)
(* taken (their guards, written out).                                      *)
WorkerFinishEnabled ==
    move_thread = "alive" /\ wTodo = <<>> /\ wStage = 0

AICompleteEnabled ==
    /\ isAIThink /\ ~isTransition /\ move_thread = "dead"
    /\ PrimaryIdle
    /\ ~gameEnded /\ ~crashed /\ ~listening
    /\ (ShadeRaises(Unset) \/ Len(bestMoveReturn) # 2 \/ MoveBudget)

(* Weak fairness of the steps of the two threads and strong fairness of    *)
(* the two tests of the event loop; for WorkerFinish and AIComplete the    *)
(* fairness formula is written with the guard in the place of ENABLED.     *)
SpecAILive ==
    /\ AILiveInit
    /\ [][AINext]_vars
    /\ WF_vars(WorkerRead)
    /\ WF_vars(WorkerWrite)
    /\ WF_vars(PrimaryRead)
    /\ WF_vars(PrimaryWrite)
    /\ SF_vars(TransitionEnd)
    /\ ([]<>~WorkerFinishEnabled \/ []<><<WorkerFinish>>_vars)
    /\ (<>[]~AICompleteEnabled \/ []<><<AIComplete>>_vars)

(* C37: every search that has been started completes, and the primary      *)
(* thread then clears isAIThink and makes the move: in the end the AI is   *)
(* not thinking and nothing is being animated, with the event loop still   *)
(* running (or left because the user quit), so that the user can move      *)
(* again or the game has ended.  A search counts if the game may still     *)
(* make its move (MoveBudget).                                             *)
C37_SearchEndsInMove ==
    (move_thread = "alive" /\ MoveBudget)
        ~> (gameEnded \/ (~crashed /\ ~isAIThink /\ ~isTransition))

-----------------------------------------------------------------------------
(* The calls nested in one another, counted from the code: a call of       *)
(* findPossibleSquares counts 1, and below it the two calls of the queen   *)
(* branch (lines 429 and 432), the isAttackedby calls of the castling gate *)
(* (lines 453-466) and the isCheck calls of the filter (lines 469-479);    *)
(* isAttackedby calls findPossibleSquares for every piece of the colour    *)
(* (lines 272-277) and isCheck calls isAttackedby.                         *)
MaxOf(S) == IF S = {} THEN 0 ELSE CHOOSE m \in S : \A n \in S : n <= m

RECURSIVE Nesting(_, _, _, _)

AttackNesting(pos, color) ==
    1 + MaxOf({Nesting(pos, sq[1], sq[2], TRUE) :
                  sq \in {s \in Idx \X Idx :
                             isOccupiedby(pos.board, s[1], s[2], color)}})

CheckNesting(pos, color) == 1 + AttackNesting(pos, opp(color))

Nesting(pos, x, y, AttackSearch) ==
    LET piece == pos.board[y][x][1]
        color == pos.board[y][x][2]
        queen == IF piece = "Q"
                 THEN Max(Nesting([pos EXCEPT !.board[y][x] = <<"R", color>>],
                                  x, y, TRUE),
                          Nesting([pos EXCEPT !.board[y][x] = <<"B", color>>],
                                  x, y, TRUE))
                 ELSE 0
        gate == IF piece = "K" /\ ~AttackSearch
                   /\ GateCalls(pos, x, y, opp(color)) > 0
                THEN AttackNesting(pos, opp(color))
                ELSE 0
        filter == IF ~AttackSearch
                  THEN MaxOf({CheckNesting(makemove(clone(pos), x, y, t[1], t[2]),
                                           color) :
                                 t \in SeqToSet(PseudoSquares(pos, x, y, FALSE))})
                  ELSE 0
    IN  1 + Max(queen, Max(gate, filter))

(* The squares of the pieces on the live board.                            *)
Occupied == {s \in Idx \X Idx : position.board[s[2]][s[1]] # Empty}

(* C38: findPossibleSquares with AttackSearch true makes no call of        *)
(* isAttackedby or isCheck and does not filter (below it there is at most  *)
(* the one level of the queen branch), and it gives no castling target and *)
(* no pawn advance that is not a capture; so isAttackedby is done after 3  *)
(* nested calls, isCheck after 4, and findPossibleSquares of a piece of    *)
(* the side to move after 5.                                               *)
C38_AttackSearchIsFlat ==
    /\ \A s \in Occupied :
           LET t     == findPossibleSquares(position, s[1], s[2], TRUE)
               piece == position.board[s[2]][s[1]][1]
           IN  /\ Nesting(position, s[1], s[2], TRUE)
                      = (IF piece = "Q" THEN 2 ELSE 1)
               /\ piece = "P" => \A i \in 1..Len(t) : t[i][1] # s[1]
               /\ piece = "K" => \A i \in 1..Len(t) : Abs(t[i][1] - s[1]) <= 1
    /\ \A color \in {"w", "b"} : CheckNesting(position, color) <= 4
    /\ ply <= Len(Lines[line]) =>
           \A s \in Occupied :
               position.board[s[2]][s[1]][2] = ToMove(position) =>
                   Nesting(position, s[1], s[2], FALSE) <= 5

(* White may castle at the end of opening 4: the king's targets hold g1    *)
(* in the full search and not in the attack search, and the pawn of a2     *)
(* has its two advances in the full search and none in the attack search.  *)
C38_Witness ==
    /\ line = 4
    /\ ply = Len(Lines[4])
    /\ InSeq(<<6, 7>>, findPossibleSquares(position, 4, 7, FALSE))
    /\ ~InSeq(<<6, 7>>, findPossibleSquares(position, 4, 7, TRUE))
    /\ Len(findPossibleSquares(position, 0, 6, FALSE)) = 2
    /\ findPossibleSquares(position, 0, 6, TRUE) = <<>>
    /\ Nesting(position, 4, 7, FALSE) = 5

-----------------------------------------------------------------------------
(* The queries of Commands, called one at a time on the live position by   *)
(* the one thread there is: the positions are those of the openings        *)
(* QueryLines, and a query goes through the queen squares of the live      *)
(* board it calls findPossibleSquares for, one read or write of            *)
(* board[y][x] at a step (PrimaryRead, PrimaryWrite).  Everything else a   *)
(* query works on is a clone (lines 474-475).                              *)
QueryLines == {5, 9}

QueryOps == {"findPossibleSquares", "isAttackedby", "isCheck", "isCheckmate",
             "isStalemate", "allMoves"}

(* Lines 424-467: the queen squares of the live board a call of            *)
(* findPossibleSquares for the piece on sq comes to.                       *)
SquareVisits(pos, sq) ==
    LET piece == pos.board[sq[2]][sq[1]][1]
        color == pos.board[sq[2]][sq[1]][2]
    IN  IF piece = "Q" THEN <<sq>>
        ELSE IF piece = "K"
        THEN Repeat(QueensOf(pos.board, opp(color), ColMajor),
                    GateCalls(pos, sq[1], sq[2], opp(color)))
        ELSE <<>>

(* Lines 262-280, 590-665: the same for the other queries; isCheckmate and *)
(* isStalemate ask allMoves only if isCheck has answered as their "and"    *)
(* needs.                                                                  *)
QueryVisits(pos, op, color, sq) ==
    CASE op = "findPossibleSquares" -> SquareVisits(pos, sq)
      [] op = "isAttackedby" -> QueensOf(pos.board, color, ColMajor)
      [] op = "isCheck" -> QueensOf(pos.board, opp(color), ColMajor)
      [] op = "allMoves" -> RootVisits(pos, color)
      [] op = "isCheckmate" ->
            QueensOf(pos.board, opp(color), ColMajor)
            \o (IF isCheck(pos, color) THEN RootVisits(pos, color) ELSE <<>>)
      [] op = "isStalemate" ->
            QueensOf(pos.board, opp(ToMove(pos)), ColMajor)
            \o (IF ~isCheck(pos, ToMove(pos))
                THEN RootVisits(pos, ToMove(pos)) ELSE <<>>)

(* A query is called on the live position; searchBoard keeps the board as  *)
(* it is at the call.                                                      *)
QueryCall(op, color, sq) ==
    /\ PrimaryIdle
    /\ position.board[sq[2]][sq[1]] # Empty
    /\ lastOp' = op
    /\ searchBoard' = position.board
    /\ pTodo' = QueryVisits(position, op, color, sq)
    /\ UNCHANGED <<engineVars, guiVars, isAI, AIPlayer, isAIThink,
                   isTransition, bestMoveReturn, move_thread, wTodo, wStage,
                   wSeen, pStage, searchVars, cloned, cOps>>

(* The next move of the opening is made, between two queries.              *)
QueryPlay ==
    /\ PrimaryIdle
    /\ ply < Len(Lines[line])
    /\ position' = makemove(position, Lines[line][ply + 1][1][1],
                            Lines[line][ply + 1][1][2],
                            Lines[line][ply + 1][2][1],
                            Lines[line][ply + 1][2][2])
    /\ before' = position
    /\ ply' = ply + 1
    /\ lastOp' = "makemove"
    /\ searchBoard' = position'.board
    /\ UNCHANGED <<history, prevMove, line, guiVars, isAI, AIPlayer, isAIThink,
                   isTransition, bestMoveReturn, move_thread, wTodo, wStage,
                   wSeen, pTodo, pStage, searchVars, cloned, cOps>>

QueryInit ==
    /\ position = StartPosition
    /\ history = <<>>
    /\ prevMove = <<-1, -1, -1, -1>>
    /\ before = StartPosition
    /\ line \in QueryLines
    /\ ply = 0
    /\ select = -1
    /\ isAI = FALSE
    /\ AIPlayer = -1
    /\ initialize
    /\ NoSearch
    /\ level = 0
    /\ NoRoot
    /\ NoClone

QueryNext ==
    \/ \E op \in QueryOps : \E color \in {"w", "b"} : \E sq \in Idx \X Idx :
           QueryCall(op, color, sq)
    \/ PrimaryRead
    \/ PrimaryWrite
    \/ QueryPlay

SpecQuery == QueryInit /\ [][QueryNext]_vars

(* C39: run one at a time, the queries findPossibleSquares, isAttackedby,  *)
(* isCheck, isCheckmate, isStalemate and allMoves leave the position as    *)
(* it was: when a query has returned the board is the board it was called  *)
(* on, every queen put back, and no step of a query changes anything of    *)
(* the position but the square of the queen it is at.                      *)
C39_QueriesReadOnly ==
    /\ [](PrimaryIdle => position.board = searchBoard)
    /\ [][lastOp' \in QueryOps =>
              /\ history' = history
              /\ \E q \in Idx \X Idx :
                     position' = [position EXCEPT
                                     !.board[q[2]][q[1]] =
                                         position'.board[q[2]][q[1]]]]_vars

(* isStalemate has returned in the position of opening 5 where both        *)
(* queens have moved: it has gone through white's queen for isCheck and    *)
(* through black's for allMoves.                                           *)
C39_Witness ==
    /\ line = 5
    /\ ply = 7
    /\ lastOp = "isStalemate"
    /\ PrimaryIdle
    /\ Len(QueryVisits(position, "isStalemate", "w", <<4, 7>>)) >= 2
    /\ position.board = searchBoard

-----------------------------------------------------------------------------
(* C40: the table of a game only grows.  No step takes a key out of it,    *)
(* every entry carries the number of a search the game has made, and when  *)
(* the root loop of a later search comes to a move whose position an       *)
(* earlier search has stored, the stored value is what it records, with no *)
(* call and no change of the table.                                        *)
StoredEarlier(i) ==
    /\ Has(searched, pos2key(RootChild(i)))
    /\ Entry(searched, pos2key(RootChild(i))).search < searchNo

C40_TableOnlyGrows ==
    /\ [](\A k \in DOMAIN searched : searched[k].search \in 1..searchNo)
    /\ [][/\ DOMAIN searched \subseteq DOMAIN searched'
          /\ (rStage = "loop" /\ rIdx <= Len(RootMoves) /\ rValues' # rValues
              /\ StoredEarlier(rIdx))
             => /\ rCalls' = rCalls
                /\ searched' = searched
                /\ rValues' = Append(rValues,
                                     Entry(searched,
                                           pos2key(RootChild(rIdx))).value)
         ]_vars

(* A search of the game of level 1 has returned having taken for one of    *)
(* its moves the value an earlier search had stored: it has made fewer     *)
(* calls than it has gone through moves, and the table still holds what    *)
(* that earlier search stored.                                             *)
C40_Witness ==
    /\ level = 1
    /\ searchNo >= 2
    /\ rStage = "returned"
    /\ isAIThink
    /\ rCalls < Len(rValues)
    /\ \E i \in 1..Len(rValues) : StoredEarlier(i)

=============================================================================
